---------------------------- MODULE Spec2Model ----------------------------
(***************************************************************************)
(* Model of the assignment and schema conversion engine of mspt            *)
(* (Mechvibes sound pack tools): the pattern matcher and key selector      *)
(* resolver of rules.py, the canonical builder build_definitions, the      *)
(* file-reference builder build_mechvibes_v2_inputs of converters.py and   *)
(* the driver generate_config of config.py.                                *)
(*                                                                         *)
(* Text is a sequence of one-character strings, so that matching, case     *)
(* folding and suffix tests are computed and not assumed.  Times are       *)
(* integers counting tenths of a millisecond.                              *)
(***************************************************************************)
EXTENDS Integers, Sequences, FiniteSets, TLC

(***************************************************************************)
(* Bounds of the model.                                                    *)
(***************************************************************************)
\* longest sourcemap entry list drawn as input
MaxEntries == 2
\* longest rule map (number of rule lines) drawn as input
MaxLines == 2
\* longest selector list handed to resolve_key_selectors on its own
MaxSelectors == 2

(***************************************************************************)
(* Text helpers.                                                           *)
(***************************************************************************)
UpperChars == <<"A","B","C","D","E","F","G","H","I","J","K","L","M",
                "N","O","P","Q","R","S","T","U","V","W","X","Y","Z">>
LowerChars == <<"a","b","c","d","e","f","g","h","i","j","k","l","m",
                "n","o","p","q","r","s","t","u","v","w","x","y","z">>
DigitChars == <<"0","1","2","3","4","5","6","7","8","9">>

\* str.lower() on one character
LowerChar(c) ==
    IF \E i \in 1..26 : UpperChars[i] = c
    THEN LowerChars[CHOOSE i \in 1..26 : UpperChars[i] = c]
    ELSE c

\* str.lower()
Lower(s) == [i \in 1..Len(s) |-> LowerChar(s[i])]

IsDigit(c) == \E i \in 1..10 : DigitChars[i] = c

DigitVal(c) == (CHOOSE i \in 1..10 : DigitChars[i] = c) - 1

\* str.endswith
EndsWith(s, suf) ==
    /\ Len(s) >= Len(suf)
    /\ SubSeq(s, Len(s) - Len(suf) + 1, Len(s)) = suf

\* int() of a run of decimal digits
RECURSIVE ParseInt(_)
ParseInt(ds) ==
    IF Len(ds) = 0 THEN 0
    ELSE 10 * ParseInt(SubSeq(ds, 1, Len(ds) - 1)) + DigitVal(ds[Len(ds)])

\* str() of a non-negative integer
RECURSIVE IntToStr(_)
IntToStr(n) ==
    IF n < 10 THEN <<DigitChars[n + 1]>>
    ELSE IntToStr(n \div 10) \o <<DigitChars[(n % 10) + 1]>>

\* the elements of a sequence
Range(s) == {s[i] : i \in 1..Len(s)}

\* the sequences over S without repeated elements, of length at most n
RECURSIVE DistinctSeqs(_, _)
DistinctSeqs(S, n) ==
    IF n = 0 THEN {<<>>}
    ELSE LET shorter == DistinctSeqs(S, n - 1)
         IN  shorter \cup
             UNION {{Append(q, x) : x \in S \ Range(q)} :
                    q \in {r \in shorter : Len(r) = n - 1}}

(***************************************************************************)
(* Pattern matcher: rules.py compile_matcher.                              *)
(* Pattern alphabet of the model: letters, digits, "_", "-", ".", "*",     *)
(* "?" (glob only) and the numeric brace range {A-B}.                      *)
(***************************************************************************)
\* the digits of s starting at position i
RECURSIVE DigitRun(_, _)
DigitRun(s, i) ==
    IF i <= Len(s) /\ IsDigit(s[i]) THEN <<s[i]>> \o DigitRun(s, i + 1)
    ELSE <<>>

\* re r"\{(\d+)-(\d+)\}" matches at position i of s
BraceAt(s, i) ==
    /\ i <= Len(s) /\ s[i] = "{"
    /\ LET a == DigitRun(s, i + 1)
           d == i + 1 + Len(a)
       IN  /\ Len(a) > 0
           /\ d <= Len(s) /\ s[d] = "-"
           /\ LET b == DigitRun(s, d + 1)
                  e == d + 1 + Len(b)
              IN  Len(b) > 0 /\ e <= Len(s) /\ s[e] = "}"

\* the groups of the match at position i, given its two digit runs
BraceGroups(i, a, b) ==
    [from |-> i, to |-> i + Len(a) + Len(b) + 2,
     lo |-> ParseInt(a), hi |-> ParseInt(b)]

\* the match of the brace range at position i
BraceMatchAt(s, i, a) == BraceGroups(i, a, DigitRun(s, i + Len(a) + 2))

\* the positions where the brace range matches
BracePositions(s) == {i \in 1..Len(s) : BraceAt(s, i)}

\* the least element of a non-empty set of numbers
Least(S) == CHOOSE k \in S : \A m \in S : k <= m

\* the leftmost of the positions ps, as [from, to, lo, hi]; [from |-> 0]
\* when there is none
BraceFirst(s, ps) ==
    IF ps = {} THEN [from |-> 0, to |-> 0, lo |-> 0, hi |-> 0]
    ELSE BraceMatchAt(s, Least(ps), DigitRun(s, Least(ps) + 1))

\* brace_range.search(pattern)
BraceSearch(s) == BraceFirst(s, BracePositions(s))

\* an expansion step that does not swap start and end
ExpandStep_NoSwap(p, m) ==
    {SubSeq(p, 1, m.from - 1) \o IntToStr(num) \o SubSeq(p, m.to + 1, Len(p)) :
        num \in m.lo..m.hi}

\* the patterns one expansion step makes of p at its leftmost range m, start
\* and end swapped when start > end: rules.py 66-73
ExpandStep(p, m) ==
    {SubSeq(p, 1, m.from - 1) \o IntToStr(num) \o SubSeq(p, m.to + 1, Len(p)) :
        num \in (IF m.lo > m.hi THEN m.hi ELSE m.lo)..
                (IF m.lo > m.hi THEN m.lo ELSE m.hi)}

\* the expansion loop of compile_matcher, run until no pattern holds a range
RECURSIVE ExpandAll(_)
ExpandAll(ps) ==
    IF \A p \in ps : BracePositions(p) = {} THEN ps
    ELSE ExpandAll(UNION {IF BracePositions(p) = {} THEN {p}
                          ELSE ExpandStep(p, BraceSearch(p)) : p \in ps})

\* the list `expanded` of compile_matcher
ExpandBraces(p) == ExpandAll({p})

\* fnmatchcase(text, pattern) from position i of the pattern and j of the text
RECURSIVE GlobFrom(_, _, _, _)
GlobFrom(p, i, t, j) ==
    IF i > Len(p) THEN j > Len(t)
    ELSE IF p[i] = "*"
         THEN \E n \in j..(Len(t) + 1) : GlobFrom(p, i + 1, t, n)
         ELSE /\ j <= Len(t)
              /\ (p[i] = "?" \/ p[i] = t[j])
              /\ GlobFrom(p, i + 1, t, j + 1)

\* fnmatchcase(text.lower(), pattern.lower())
GlobMatch(pattern, text) == GlobFrom(Lower(pattern), 1, Lower(text), 1)

\* re.compile(pattern) succeeds: within the alphabet it fails on a "*" with
\* nothing to repeat and on a repeated "*"
RegexValid(p) ==
    \A i \in 1..Len(p) : p[i] = "*" => (i > 1 /\ p[i - 1] # "*")

\* one regex atom against one character, under re.IGNORECASE
AtomMatch(a, c) == a = "." \/ LowerChar(a) = LowerChar(c)

\* the regex from position i matches the text from position j
RECURSIVE RegexFrom(_, _, _, _)
RegexFrom(p, i, t, j) ==
    IF i > Len(p) THEN TRUE
    ELSE IF i < Len(p) /\ p[i + 1] = "*"
         THEN \E n \in j..(Len(t) + 1) :
                  /\ \A k \in j..(n - 1) : AtomMatch(p[i], t[k])
                  /\ RegexFrom(p, i + 2, t, n)
         ELSE /\ j <= Len(t)
              /\ AtomMatch(p[i], t[j])
              /\ RegexFrom(p, i + 1, t, j + 1)

\* regex.search(text) is not None
RegexSearch(p, t) == \E j \in 1..(Len(t) + 1) : RegexFrom(p, 1, t, j)

\* compile_matcher(pattern)(text)
Matches(pattern, text) ==
    IF BracePositions(pattern) # {}
    THEN \E q \in ExpandBraces(pattern) : GlobMatch(q, text)
    ELSE IF RegexValid(pattern) THEN RegexSearch(pattern, text)
         ELSE GlobMatch(pattern, text)

(***************************************************************************)
(* Key universe: schema/mvdx.py KeyName, read by load_key_names.  The model *)
(* keeps four of its identifiers, in the order of the declaration.         *)
(***************************************************************************)
K_Enter == <<"E","n","t","e","r">>
K_Numpad0 == <<"N","u","m","p","a","d","0">>
K_NumpadEnter == <<"N","u","m","p","a","d","E","n","t","e","r">>
K_Tab == <<"T","a","b">>

\* load_key_names()
KEYS == <<K_Enter, K_Numpad0, K_NumpadEnter, K_Tab>>

KeySet == Range(KEYS)

\* position of a key in the universe
KeyPos(k) == CHOOSE i \in 1..Len(KEYS) : KEYS[i] = k

\* the marker selectors of a rule line
STAR == <<"*">>
STAR_UP == <<"*","_","U","P">>
UP_SUFFIX == <<"_","U","P">>

(***************************************************************************)
(* Key selector resolver: rules.py resolve_key_selectors.                  *)
(***************************************************************************)
\* one iteration of the loop over the selectors: what the selector appends
SelectorKeys(selector, keys) ==
    IF selector \in Range(keys) THEN <<selector>>
    ELSE SelectSeq(keys, LAMBDA key : Matches(selector, key))

\* a removal of duplicates that keeps each element at its last position
RECURSIVE DictFromKeys_KeepLast(_)
DictFromKeys_KeepLast(resolved) ==
    IF Len(resolved) = 0 THEN <<>>
    ELSE IF Head(resolved) \in Range(Tail(resolved))
         THEN DictFromKeys_KeepLast(Tail(resolved))
         ELSE <<Head(resolved)>> \o DictFromKeys_KeepLast(Tail(resolved))

\* list(dict.fromkeys(resolved)): each element kept at its first position
RECURSIVE DictFromKeys(_)
DictFromKeys(resolved) ==
    IF Len(resolved) = 0 THEN <<>>
    ELSE LET front == DictFromKeys(SubSeq(resolved, 1, Len(resolved) - 1))
             last  == resolved[Len(resolved)]
         IN  IF last \in Range(front) THEN front ELSE Append(front, last)

\* the list `resolved` after the loop over the selectors
RECURSIVE ResolvedRaw(_, _)
ResolvedRaw(selectors, keys) ==
    IF Len(selectors) = 0 THEN <<>>
    ELSE ResolvedRaw(SubSeq(selectors, 1, Len(selectors) - 1), keys)
         \o SelectorKeys(selectors[Len(selectors)], keys)

\* resolve_key_selectors(selectors, keys)
ResolveKeySelectors(selectors, keys) == DictFromKeys(ResolvedRaw(selectors, keys))

(***************************************************************************)
(* Inputs.  A sound entry is models.py SourceEntry: name, file and timing, *)
(* a list of (start, end) pairs.  A rule line is one item of the rule map: *)
(* a file pattern and its selector value, a bare string (single) or a      *)
(* list.  A rule document is the items of its top level other than "map",  *)
(* and the items of its "map" object when it has one.                      *)
(***************************************************************************)
F_1 == <<"1",".","w","a","v">>
F_2 == <<"2",".","w","a","v">>
F_9 == <<"9",".","w","a","v">>
F_tab == <<"t","a","b",".","w","a","v">>
F_0 == <<"0",".","w","a","v">>
P_12 == <<"{","1","-","2","}",".","w","a","v">>
P_fallback == <<"f","a","l","l","b","a","c","k">>
S_NumpadStar == <<"N","u","m","p","a","d","*">>
S_Tab_UP == <<"T","a","b","_","U","P">>

\* a plain sample
E_1 == [name |-> <<"1">>, file |-> F_1, timing |-> << <<0, 500>> >>]
\* a sample spanning two segments (the "files" sourcemap shape)
E_2 == [name |-> <<"2">>, file |-> F_2, timing |-> << <<500, 1000>>, <<1000, 1200>> >>]
\* a sample named like a key, as prepare names it from the file stem
E_tab == [name |-> <<"t","a","b">>, file |-> F_tab, timing |-> << <<1200, 1500>> >>]
\* a second sample named like the same key
E_Tab9 == [name |-> K_Tab, file |-> F_9, timing |-> << <<1500, 1600>> >>]
\* a "files" item without timing
E_0 == [name |-> <<"m","i","s","c">>, file |-> F_0, timing |-> << >>]

EntryPool == {E_1, E_2, E_tab, E_Tab9, E_0}

L_1 == [pattern |-> F_1, selectors |-> <<K_Tab>>, single |-> TRUE]
L_12 == [pattern |-> P_12, selectors |-> <<S_NumpadStar, K_Tab>>, single |-> FALSE]
L_star == [pattern |-> F_2, selectors |-> <<STAR>>, single |-> FALSE]
L_tabstar == [pattern |-> F_tab, selectors |-> <<K_Tab, STAR>>, single |-> FALSE]
L_up == [pattern |-> F_9, selectors |-> <<S_Tab_UP, STAR_UP>>, single |-> FALSE]
\* the legacy field "fallback": "1.wav"
L_legacy == [pattern |-> P_fallback, selectors |-> <<F_1>>, single |-> TRUE]

LinePool == {L_1, L_12, L_star, L_tabstar, L_up, L_legacy}

\* the sourcemaps drawn as input: files are distinct
Sourcemaps == DistinctSeqs(EntryPool, MaxEntries)

\* the rule maps drawn as input: patterns are the keys of a dict, so distinct
RuleMaps == DistinctSeqs(LinePool, MaxLines)

IsLegacy(line) == line.pattern = P_fallback /\ line.single

\* the rule document holding the lines: flat, or with the lines other than
\* the legacy field under "map"
RuleDoc(lines, wrapped) ==
    IF wrapped
    THEN [hasMap |-> TRUE,
          top |-> SelectSeq(lines, IsLegacy),
          map |-> SelectSeq(lines, LAMBDA l : ~IsLegacy(l))]
    ELSE [hasMap |-> FALSE, top |-> lines, map |-> <<>>]

\* the rule documents drawn as input; the document without items stands for
\* no rule as well (both are falsy)
RuleDocs ==
    {RuleDoc(lines, TRUE) : lines \in RuleMaps} \cup
    {RuleDoc(lines, FALSE) : lines \in {l \in RuleMaps : \E i \in 1..Len(l) : IsLegacy(l[i])}}

\* the rule_map both builders derive from the rule document
\* (rules.py 318-323, converters.py 204-209)
RuleMapOf(rule) ==
    IF ~rule.hasMap /\ rule.top = <<>> THEN <<>>
    ELSE IF rule.hasMap THEN rule.map
         ELSE rule.top

(***************************************************************************)
(* Canonical builder: rules.py apply_rule_map, assign_direct_matches,      *)
(* assign_round_robin, fill_empty_with_random.                             *)
(* A bucket is a list of items; an item is one timing pair together with   *)
(* the entry it was taken from and the phase that put it there.  The       *)
(* program's bucket is the list of the pairs (Timing).                     *)
(***************************************************************************)
NoEntry == 0

EmptyBuckets == [key \in KeySet |-> <<>>]

\* the pairs of a bucket: what the program stores
Timing(bucket) == [i \in 1..Len(bucket) |-> bucket[i].pair]

\* the items for a list of pairs of entry idx
Items(pairs, idx, phase) ==
    [i \in 1..Len(pairs) |-> [pair |-> pairs[i], entry |-> idx, phase |-> phase]]

\* timing[:1]
FirstPair(timing) == IF timing = <<>> THEN <<>> ELSE <<timing[1]>>

\* what a rule line adds to a key for a matched entry: rules.py 183
RuleBinding(entry) == entry.timing

\* what a direct name match adds to its key: rules.py 343
DirectBinding(entry) == entry.timing

\* to_list(selectors) without the "*" marker: rules.py 160-163
RuleSelectorList(line) == SelectSeq(line.selectors, LAMBDA item : item # STAR)

\* "*" in selector_list
HasFallback(line) == STAR \in Range(line.selectors)

\* the key selectors of a line resolved: rules.py 166
TargetKeys(line, keys) == ResolveKeySelectors(RuleSelectorList(line), keys)

\* the capacity test before a binding: rules.py 181
AtCapacity(bucket) == Len(bucket) >= 2

\* the loop over target_keys for one matched entry, from position i:
\* rules.py 180-183
RECURSIVE BindTargets(_, _, _, _, _)
BindTargets(b, target_keys, i, idx, entry) ==
    IF i > Len(target_keys) THEN [buckets |-> b, raised |-> FALSE]
    ELSE LET key == target_keys[i]
         IN  IF AtCapacity(b[key])
             THEN [buckets |-> b, raised |-> TRUE]
             ELSE BindTargets(
                    [b EXCEPT ![key] = @ \o Items(RuleBinding(entry), idx, "rule")],
                    target_keys, i + 1, idx, entry)

\* an entry bound without being marked as used
Consumed_Unmarked(st, idx, has_fallback, r) ==
    [buckets |-> r.buckets,
     used |-> st.used,
     fallback |-> IF has_fallback /\ st.fallback = NoEntry THEN idx
                  ELSE st.fallback,
     raised |-> r.raised]

\* the state after entry idx matched a line and was bound with result r:
\* rules.py 174-176
Consumed(st, idx, has_fallback, r) ==
    [buckets |-> r.buckets,
     used |-> st.used \cup {idx},
     fallback |-> IF has_fallback /\ st.fallback = NoEntry THEN idx
                  ELSE st.fallback,
     raised |-> r.raised]

\* the loop over the entries for one rule line, from entry idx: rules.py 168-183
RECURSIVE ScanEntries(_, _, _, _, _)
ScanEntries(st, entries, line, keys, idx) ==
    IF idx > Len(entries) \/ st.raised THEN st
    ELSE IF idx \in st.used \/ ~Matches(line.pattern, entries[idx].file)
         THEN ScanEntries(st, entries, line, keys, idx + 1)
         ELSE ScanEntries(
                Consumed(st, idx, HasFallback(line),
                         BindTargets(st.buckets, TargetKeys(line, keys), 1,
                                     idx, entries[idx])),
                entries, line, keys, idx + 1)

\* one iteration of the loop over rule_map.items(): rules.py 159-183
ApplyRuleLine(st, entries, line, keys) == ScanEntries(st, entries, line, keys, 1)

\* a rule map iterated in an arbitrary order
RuleOrders_AnyOrder(n) ==
    {q \in [1..n -> 1..n] : \A i, j \in 1..n : q[i] = q[j] => i = j}

\* the orders in which the loop may take the lines of a rule map of n items:
\* a dict iterates in insertion order
RuleOrders(n) == {[i \in 1..n |-> i]}

\* [key for key in keys if not buckets[key]]
UnassignedKeys(b, keys) == SelectSeq(keys, LAMBDA key : b[key] = <<>>)

\* the list of all the entries, consumed or not
RemainingEntries_All(entries, used) == [i \in 1..Len(entries) |-> i]

\* [idx for idx, entry in enumerate(entries) if idx not in used_indices],
\* as entry positions: rules.py 329-331
RemainingEntries(entries, used) ==
    SelectSeq([i \in 1..Len(entries) |-> i], LAMBDA idx : idx \notin used)

\* a fallback fill that appends to every key
FallbackFill_Every(b, entries, fallback, keys) ==
    [key \in KeySet |->
        b[key] \o Items(FirstPair(entries[fallback].timing), fallback, "fallback")]

\* the fallback fill: rules.py 335-337
FallbackFill(b, entries, fallback, keys) ==
    [key \in KeySet |->
        IF b[key] = <<>>
        THEN Items(FirstPair(entries[fallback].timing), fallback, "fallback")
        ELSE b[key]]

\* a match of the name as it is spelled
MatchedKey_CaseSensitive(entry, candidate_keys) ==
    Head(SelectSeq(candidate_keys, LAMBDA k : k = entry.name) \o << <<>> >>)

\* next(k for k in candidate_keys if k.lower() == entry.name.lower()), or <<>>
MatchedKey(entry, candidate_keys) ==
    Head(SelectSeq(candidate_keys, LAMBDA k : Lower(k) = Lower(entry.name))
         \o << <<>> >>)

\* one iteration of the loop of assign_direct_matches: rules.py 209-212
DirectStep(prev, idx, matched_key) ==
    IF /\ matched_key # <<>>
       /\ \A i \in 1..Len(prev.direct_map) : prev.direct_map[i].key # matched_key
    THEN [prev EXCEPT !.direct_map = Append(@, [key |-> matched_key, entry |-> idx])]
    ELSE [prev EXCEPT !.remaining_after_match = Append(@, idx)]

\* assign_direct_matches over the first n remaining entries: rules.py 202-213
RECURSIVE AssignDirectMatches(_, _, _, _)
AssignDirectMatches(entries, remaining, candidate_keys, n) ==
    IF n = 0 THEN [direct_map |-> <<>>, remaining_after_match |-> <<>>]
    ELSE DirectStep(AssignDirectMatches(entries, remaining, candidate_keys, n - 1),
                    remaining[n],
                    MatchedKey(entries[remaining[n]], candidate_keys))

\* the loop binding the direct matches: rules.py 342-343
RECURSIVE BindDirect(_, _, _, _)
BindDirect(b, entries, direct_map, n) ==
    IF n = 0 THEN b
    ELSE [BindDirect(b, entries, direct_map, n - 1) EXCEPT
            ![direct_map[n].key] =
                @ \o Items(DirectBinding(entries[direct_map[n].entry]),
                           direct_map[n].entry, "direct")]

\* {k.lower() for k in keys}
ReservedNames(keys) == {Lower(k) : k \in Range(keys)}

\* a pool without the reservation
Poolable_Unreserved(entry, keys) == TRUE

\* an entry the reservation keeps in the pool: rules.py 351
Poolable(entry, keys) ==
    entry.name = <<>> \/ Lower(entry.name) \notin ReservedNames(keys)

\* the pool after the reservation: rules.py 347-352
ReservedOut(entries, remaining_after_match, keys) ==
    SelectSeq(remaining_after_match, LAMBDA idx : Poolable(entries[idx], keys))

\* the results rng.shuffle may leave in the list
Shuffles(pool) ==
    {q \in [1..Len(pool) -> Range(pool)] : Range(q) = Range(pool)}

\* a distribution that starts the pool over when it is exhausted
AssignRoundRobin_Cycle(b, entries, pool, candidate_keys) ==
    [key \in KeySet |->
        IF key \in Range(candidate_keys) /\ pool # <<>>
        THEN LET i == CHOOSE n \in 1..Len(candidate_keys) : candidate_keys[n] = key
                 e == pool[((i - 1) % Len(pool)) + 1]
             IN  b[key] \o Items(FirstPair(entries[e].timing), e, "roundrobin")
        ELSE b[key]]

\* assign_round_robin: rules.py 240-245
AssignRoundRobin(b, entries, pool, candidate_keys) ==
    [key \in KeySet |->
        IF \E i \in 1..Len(candidate_keys) :
               candidate_keys[i] = key /\ i <= Len(pool)
        THEN LET i == CHOOSE n \in 1..Len(candidate_keys) : candidate_keys[n] = key
             IN  b[key] \o Items(FirstPair(entries[pool[i]].timing), pool[i],
                                 "roundrobin")
        ELSE b[key]]

\* not (entry.name and entry.name.lower() not in reserved_names): rules.py 276
IsReservedName(entry, keys) ==
    entry.name = <<>> \/ Lower(entry.name) \in ReservedNames(keys)

\* the candidates of fill_empty_with_random, as entry positions: rules.py 272-279
RandomCandidates(entries, keys) ==
    IF \E i \in 1..Len(entries) : ~IsReservedName(entries[i], keys)
    THEN {i \in 1..Len(entries) : ~IsReservedName(entries[i], keys)}
    ELSE 1..Len(entries)

\* the loop of fill_empty_with_random with the picks rng.choice returned:
\* rules.py 280-283
RandomFill(b, entries, picks) ==
    [key \in KeySet |->
        IF b[key] = <<>>
        THEN Items(FirstPair(entries[picks[key]].timing), picks[key], "random")
        ELSE b[key]]

\* the value build_definitions returns: rules.py 359
Definitions(b) == [key \in KeySet |-> Timing(b[key])]

(***************************************************************************)
(* File-reference builder: converters.py _with_suffix and                  *)
(* build_mechvibes_v2_inputs.  A mapping of keys to file names is a        *)
(* function on the key universe with NoDef for a key the dict lacks; the   *)
(* locals fallback_down and fallback_up hold NoDef for None.  No file or   *)
(* pattern of the model is the empty string.                               *)
(***************************************************************************)
NoDef == <<>>

UP_MARK == <<"-","u","p">>
EXT_OGG == <<".","o","g","g">>
EXT_WAV == <<".","w","a","v">>

\* str.rfind("."): the last position of a dot, 0 when there is none
LastDot(s) ==
    IF \E i \in 1..Len(s) : s[i] = "."
    THEN CHOOSE i \in 1..Len(s) : s[i] = "." /\ \A j \in (i + 1)..Len(s) : s[j] # "."
    ELSE 0

\* the suffix inserted at the dot position: converters.py 48-51
InsertAt(s, suffix, dot) ==
    IF dot = 0 THEN s \o suffix
    ELSE SubSeq(s, 1, dot - 1) \o suffix \o SubSeq(s, dot, Len(s))

\* _with_suffix(filename_or_pattern, suffix)
WithSuffix(s, suffix) ==
    IF s = <<>> THEN s
    ELSE IF EndsWith(s, suffix \o EXT_OGG) \/ EndsWith(s, suffix \o EXT_WAV) THEN s
         ELSE InsertAt(s, suffix, LastDot(s))

\* the locals of build_mechvibes_v2_inputs before the loop over the rule:
\* converters.py 211-218
V2Locals ==
    [line |-> 0,
     used_indices |-> {},
     keydown_defines |-> [key \in KeySet |-> NoDef],
     keyup_defines |-> [key \in KeySet |-> NoDef],
     fallback_down |-> NoDef,
     fallback_up |-> NoDef,
     fallback_down_from_rule |-> FALSE,
     enable_keyup |-> FALSE]

\* the legacy alias test: converters.py 222
IsLegacyAlias(ln) == ln.pattern = P_fallback /\ ln.single

\* selector_list without the two markers: converters.py 227-233
V2SelectorList(ln) ==
    SelectSeq(ln.selectors, LAMBDA item : item # STAR /\ item # STAR_UP)

\* down_selectors: converters.py 236-242
DownSelectors(ln) ==
    SelectSeq(V2SelectorList(ln), LAMBDA sel : ~EndsWith(sel, UP_SUFFIX))

\* sel[: -len("_UP")]
StripUp(sel) == SubSeq(sel, 1, Len(sel) - Len(UP_SUFFIX))

\* the selectors of a list, each without its _UP suffix
RECURSIVE StripAll(_)
StripAll(sels) ==
    IF sels = <<>> THEN <<>>
    ELSE <<StripUp(Head(sels))>> \o StripAll(Tail(sels))

\* up_selectors: converters.py 236-242
UpSelectors(ln) ==
    StripAll(SelectSeq(V2SelectorList(ln), LAMBDA sel : EndsWith(sel, UP_SUFFIX)))

\* the entries a line consumes: converters.py 246-251
V2Matched(es, used, pattern) ==
    {idx \in 1..Len(es) : idx \notin used /\ Matches(pattern, es[idx].file)}

\* a mapping with pattern set for the keys that have no definition yet:
\* converters.py 267-269, 272-274
SetDefault(defines, target_keys, pattern) ==
    [key \in KeySet |->
        IF key \in Range(target_keys) /\ defines[key] = NoDef THEN pattern
        ELSE defines[key]]

\* the locals after a line that matched the entries `matched` (not empty):
\* converters.py 253-274
V2Bind(v, ln, matched, down_selectors, up_selectors) ==
    [line |-> v.line + 1,
     used_indices |-> v.used_indices \cup matched,
     keydown_defines |->
        IF down_selectors # <<>>
        THEN SetDefault(v.keydown_defines,
                        ResolveKeySelectors(down_selectors, KEYS), ln.pattern)
        ELSE v.keydown_defines,
     keyup_defines |->
        IF up_selectors # <<>>
        THEN SetDefault(v.keyup_defines,
                        ResolveKeySelectors(up_selectors, KEYS), ln.pattern)
        ELSE v.keyup_defines,
     fallback_down |->
        IF STAR \in Range(ln.selectors) /\ v.fallback_down = NoDef
        THEN ln.pattern ELSE v.fallback_down,
     fallback_up |->
        IF STAR_UP \in Range(ln.selectors) /\ v.fallback_up = NoDef
        THEN ln.pattern ELSE v.fallback_up,
     fallback_down_from_rule |->
        IF STAR \in Range(ln.selectors) /\ v.fallback_down = NoDef
        THEN TRUE ELSE v.fallback_down_from_rule,
     enable_keyup |->
        IF up_selectors # <<>> \/ STAR_UP \in Range(ln.selectors)
        THEN TRUE ELSE v.enable_keyup]

\* a line that binds whether or not its pattern matched an entry
V2AfterMatch_Unmatched(v, ln, matched) ==
    V2Bind(v, ln, matched, DownSelectors(ln), UpSelectors(ln))

\* the locals after a line, given the entries it matched
V2AfterMatch(v, ln, matched) ==
    IF matched = {} THEN [v EXCEPT !.line = @ + 1]
    ELSE V2Bind(v, ln, matched, DownSelectors(ln), UpSelectors(ln))

\* one iteration of the loop over rule_map.items(): converters.py 221-274
V2RuleLine(v, es, ln) ==
    IF IsLegacyAlias(ln)
    THEN [v EXCEPT !.line = @ + 1,
                   !.fallback_down = IF @ = NoDef THEN ln.selectors[1] ELSE @]
    ELSE V2AfterMatch(v, ln, V2Matched(es, v.used_indices, ln.pattern))

\* the file of the first entry named like key k, NoDef when there is none:
\* converters.py 295-304
DirectFile(es, k) ==
    Head(SelectSeq([i \in 1..Len(es) |->
                       IF es[i].name # <<>> /\ Lower(es[i].name) = Lower(k)
                       THEN es[i].file ELSE NoDef],
                   LAMBDA f : f # NoDef)
         \o <<NoDef>>)

\* keydown_defines after the direct name match: converters.py 295-304
V2Direct(defines, es) ==
    [key \in KeySet |->
        IF defines[key] # NoDef THEN defines[key] ELSE DirectFile(es, key)]

\* used_indices after the reservation: converters.py 308-311
V2Reserved(es, used) ==
    used \cup {idx \in 1..Len(es) :
                 /\ es[idx].name # <<>>
                 /\ Lower(es[idx].name) \in ReservedNames(KEYS)}

\* the files of the entries left: converters.py 313-316
FilesOf(es, idxs) == [i \in 1..Len(idxs) |-> es[idxs[i]].file]

\* cycle_files: converters.py 316
CycleFiles(es, used, fallback_down) ==
    IF RemainingEntries(es, used) = <<>> THEN <<fallback_down>>
    ELSE FilesOf(es, RemainingEntries(es, used))

\* the definition a key without one receives: converters.py 323-326
FillFile(key, cycle_files, fallback_down, from_rule) ==
    IF from_rule THEN fallback_down
    ELSE cycle_files[((KeyPos(key) - 1) % Len(cycle_files)) + 1]

\* keydown_defines after the fill: converters.py 318-326
V2Fill(defines, cycle_files, fallback_down, from_rule) ==
    [key \in KeySet |->
        IF defines[key] # NoDef THEN defines[key]
        ELSE FillFile(key, cycle_files, fallback_down, from_rule)]

\* a derivation that replaces the up definitions of the rule as well
V2DeriveUp_Always(keyup, keydown, split_mode) ==
    [key \in KeySet |->
        IF split_mode /\ keydown[key] # NoDef
        THEN WithSuffix(keydown[key], UP_MARK)
        ELSE keyup[key]]

\* keyup_defines after the derivation of split mode: converters.py 330-336
V2DeriveUp(keyup, keydown, split_mode) ==
    [key \in KeySet |->
        IF split_mode /\ keyup[key] = NoDef /\ keydown[key] # NoDef
        THEN WithSuffix(keydown[key], UP_MARK)
        ELSE keyup[key]]

\* soundup: converters.py 340-341
V2SoundUp(fallback_down, fallback_up, split_mode) ==
    IF split_mode /\ fallback_up = fallback_down
    THEN WithSuffix(fallback_down, UP_MARK)
    ELSE fallback_up

\* MechvibesV2Inputs built from the defaulted fallbacks and the filled down
\* mapping: converters.py 328-349
V2Result(v, fallback_down, fallback_up, keydown, split_mode) ==
    [sound |-> fallback_down,
     soundup |-> V2SoundUp(fallback_down, fallback_up, split_mode),
     keydown_defines |-> keydown,
     keyup_defines |-> V2DeriveUp(v.keyup_defines, keydown, split_mode),
     has_keyup_rules |-> v.enable_keyup \/ split_mode]

\* the same, from the defaulted down fallback: converters.py 279-326
V2WithDown(v, es, fallback_down, split_mode) ==
    V2Result(v, fallback_down,
             IF v.fallback_up = NoDef THEN fallback_down ELSE v.fallback_up,
             V2Fill(V2Direct(v.keydown_defines, es),
                    CycleFiles(es, V2Reserved(es, v.used_indices), fallback_down),
                    fallback_down, v.fallback_down_from_rule),
             split_mode)

\* build_mechvibes_v2_inputs after the loop over the rule: converters.py 276-349
V2Finish(v, es, split_mode) ==
    V2WithDown(v, es,
               IF v.fallback_down = NoDef THEN es[1].file ELSE v.fallback_down,
               split_mode)

\* the value of v2_inputs before build_mechvibes_v2_inputs returned
NoInputs ==
    [sound |-> NoDef, soundup |-> NoDef,
     keydown_defines |-> [key \in KeySet |-> NoDef],
     keyup_defines |-> [key \in KeySet |-> NoDef],
     has_keyup_rules |-> FALSE]

(***************************************************************************)
(* Driver: config.py generate_config, with converters.py to_mechvibes_v1   *)
(* as far as it can fail.                                                  *)
(***************************************************************************)
\* TimingList of schema/mvdx.py: Field(min_length=1, max_length=2)
MinTimingLen == 1
MaxTimingLen == 2

\* round() of x tenths of a millisecond to whole milliseconds: to the
\* nearest, a tie to the even one
RoundMs(x) ==
    IF x % 10 < 5 THEN x \div 10
    ELSE IF x % 10 > 5 THEN (x \div 10) + 1
         ELSE IF (x \div 10) % 2 = 0 THEN x \div 10
              ELSE (x \div 10) + 1

\* DefinitionKey(timing=pairs) accepts the pairs: config.py 107,
\* schema/mvdx.py 8
ValidTiming(pairs) == Len(pairs) >= MinTimingLen /\ Len(pairs) <= MaxTimingLen

\* to_definition_keys(definitions) returns: config.py 98-108
ValidDefinitions(defs) == \A key \in KeySet : ValidTiming(defs[key])

\* the pair to_mechvibes_v1 converts for a key: converters.py 102-114
ClipSource(pairs) ==
    IF Len(pairs) >= 2 THEN <<pairs[1][1], pairs[2][2]>> ELSE pairs[1]

\* _timing_pair_to_clip raises for the pair: converters.py 57-59
ClipRaises(pair) == RoundMs(pair[2] - pair[1]) < 0

\* a clip of start and end in place of start and length
TimingPairToClip_StartEnd(pair) == <<RoundMs(pair[1]), RoundMs(pair[2])>>

\* _timing_pair_to_clip(pair)
TimingPairToClip(pair) == <<RoundMs(pair[1]), RoundMs(pair[2] - pair[1])>>

\* to_mechvibes_v1 raises on the definitions: converters.py 98-114
V1Raises(defs) ==
    \E key \in KeySet : defs[key] # <<>> /\ ClipRaises(ClipSource(defs[key]))

\* the --schema values of the model and what parse_schema_selector makes of
\* them: config.py 19-40
Wanted(schema) ==
    CASE schema = "v1|v2" -> {"v1", "v2"}
      [] schema = "all" -> {"v1", "v2", "mvdx"}
      [] schema = "mvdx|v1" -> {"mvdx", "v1"}
      [] OTHER -> {}

Schemas == {"v1|v2", "all", "mvdx|v1"}

(***************************************************************************)
(* State.                                                                  *)
(***************************************************************************)
VARIABLES
    call,            \* the function under execution
    entries,         \* iter_sourcemap_entries(sourcemap)
    rule,            \* the rule document
    pc,              \* position in the function
    error,           \* the error raised, "" when none
    order,           \* the order in which the rule lines are taken
    line,            \* number of rule lines applied so far
    buckets,         \* build_definitions: buckets
    used_indices,    \* used_indices of the builder under execution
    fallback_entry,  \* build_definitions: fallback_entry, an entry position
    pool,            \* build_definitions: remaining_after_match
    after_rule,      \* buckets as rule application left them
    split,           \* the split flag of the call
    v2,              \* build_mechvibes_v2_inputs: the locals
    v2_inputs,       \* build_mechvibes_v2_inputs: the value returned
    schema,          \* generate_config: the schema selector
    written,         \* generate_config: the configuration documents written
    run,             \* number of the call on these inputs: 1, or 2 for a repeat
    prev,            \* what the first call computed by rules and fallback
    rs,              \* resolve_key_selectors: arguments, locals and result
    fn               \* a function called on its own: arguments and result

engineVars == <<pc, error, order, line, buckets, used_indices, fallback_entry,
                pool, after_rule>>

v2Vars == <<v2, v2_inputs>>

\* what no step of a call changes
callVars == <<call, entries, rule, split, schema, run, prev, rs, fn>>

vars == <<callVars, engineVars, v2Vars, written>>

\* the builders without their test for an empty entry list
NoEntries_Unchecked(es) == FALSE

\* `if not entries`: rules.py 312, converters.py 201
NoEntries(es) == es = <<>>

\* rs while resolve_key_selectors is not under execution on its own
RsIdle == [pc |-> "idle", selectors |-> <<>>, i |-> 0, resolved |-> <<>>,
           result |-> <<>>]

\* prev before a first call has ended
NoSnapshot == [ended |-> "", rule_buckets |-> EmptyBuckets, used |-> {},
               fallback |-> NoEntry, filled |-> EmptyBuckets,
               binding |-> EmptyBuckets]

\* fn while no function is called on its own
FnIdle == [pc |-> "idle"]

InitAux ==
    /\ run = 1
    /\ prev = NoSnapshot
    /\ rs = RsIdle
    /\ fn = FnIdle

InitEngine ==
    /\ pc = "start"
    /\ error = ""
    /\ order = <<>>
    /\ line = 0
    /\ buckets = EmptyBuckets
    /\ used_indices = {}
    /\ fallback_entry = NoEntry
    /\ pool = <<>>
    /\ after_rule = EmptyBuckets

InitV2 ==
    /\ v2 = V2Locals
    /\ v2_inputs = NoInputs

\* a call of build_definitions, or of build_mechvibes_v2_inputs
Init ==
    /\ call \in {"build_definitions", "build_mechvibes_v2_inputs"}
    /\ entries \in Sourcemaps
    /\ rule \in RuleDocs
    /\ split \in (IF call = "build_definitions" THEN {FALSE} ELSE BOOLEAN)
    /\ schema = ""
    /\ written = {}
    /\ InitEngine
    /\ InitV2
    /\ InitAux

\* where build_definitions hands over when it returns
Returned == IF call = "generate_config" THEN "built" ELSE "done"

InEngine == call \in {"build_definitions", "generate_config"}

\* build_definitions up to the rule application: rules.py 309-327
BD_Start ==
    /\ InEngine /\ pc = "start"
    /\ IF NoEntries(entries)
       THEN /\ pc' = "error"
            /\ error' = "EmptyInput"
            /\ UNCHANGED order
       ELSE /\ order' \in RuleOrders(Len(RuleMapOf(rule)))
            /\ pc' = IF RuleMapOf(rule) # <<>> THEN "rule" ELSE "assign"
            /\ UNCHANGED error
    /\ UNCHANGED <<callVars, line, buckets, used_indices, fallback_entry,
                   pool, after_rule, v2Vars, written>>

\* the state after a rule line left st: the raise of rules.py 182, or the next
\* line, or the return of rules.py 185
RuleLineDone(st) ==
    /\ buckets' = st.buckets
    /\ used_indices' = st.used
    /\ line' = line + 1
    /\ IF st.raised
       THEN /\ pc' = "error"
            /\ error' = "CapacityExceeded"
            /\ UNCHANGED <<fallback_entry, after_rule>>
       ELSE /\ fallback_entry' = st.fallback
            /\ pc' = IF line + 1 = Len(order) THEN "assign" ELSE "rule"
            /\ after_rule' = IF line + 1 = Len(order) THEN st.buckets
                             ELSE after_rule
            /\ UNCHANGED error

\* one rule line of apply_rule_map: rules.py 159-185
BD_RuleLine ==
    /\ InEngine /\ pc = "rule"
    /\ line < Len(order)
    /\ RuleLineDone(ApplyRuleLine([buckets |-> buckets, used |-> used_indices,
                                   fallback |-> fallback_entry, raised |-> FALSE],
                                  entries, RuleMapOf(rule)[order[line + 1]], KEYS))
    /\ UNCHANGED <<callVars, order, pool, v2Vars, written>>

\* the fallback fill: rules.py 333-337, 359
BD_FallbackFill ==
    /\ InEngine /\ pc = "assign"
    /\ fallback_entry # NoEntry
    /\ buckets' = FallbackFill(buckets, entries, fallback_entry, KEYS)
    /\ pc' = Returned
    /\ UNCHANGED <<callVars, error, order, line, used_indices, fallback_entry,
                   pool, after_rule, v2Vars, written>>

\* assign_direct_matches(remaining_entries, unassigned_keys)
DirectMatches(es, remaining, candidate_keys) ==
    AssignDirectMatches(es, remaining, candidate_keys, Len(remaining))

\* the state after the direct matches dm: rules.py 342-352
DirectDone(dm) ==
    /\ buckets' = BindDirect(buckets, entries, dm.direct_map, Len(dm.direct_map))
    /\ pool' = ReservedOut(entries, dm.remaining_after_match, KEYS)

\* direct name match and reservation: rules.py 329-333, 339-352
BD_DirectMatch ==
    /\ InEngine /\ pc = "assign"
    /\ fallback_entry = NoEntry
    /\ DirectDone(DirectMatches(entries, RemainingEntries(entries, used_indices),
                                UnassignedKeys(buckets, KEYS)))
    /\ pc' = "distribute"
    /\ UNCHANGED <<callVars, error, order, line, used_indices, fallback_entry,
                   after_rule, v2Vars, written>>

\* shuffle and round-robin distribution: rules.py 354-356
BD_RoundRobin ==
    /\ InEngine /\ pc = "distribute"
    /\ \E shuffled \in Shuffles(pool) :
          /\ pool' = shuffled
          /\ buckets' = AssignRoundRobin(buckets, entries, shuffled,
                                         UnassignedKeys(buckets, KEYS))
    /\ pc' = "fill"
    /\ UNCHANGED <<callVars, error, order, line, used_indices, fallback_entry,
                   after_rule, v2Vars, written>>

\* random fill and return: rules.py 357-359
BD_RandomFill ==
    /\ InEngine /\ pc = "fill"
    /\ \E picks \in [{key \in KeySet : buckets[key] = <<>>} ->
                        RandomCandidates(entries, KEYS)] :
          buckets' = RandomFill(buckets, entries, picks)
    /\ pc' = Returned
    /\ UNCHANGED <<callVars, error, order, line, used_indices, fallback_entry,
                   pool, after_rule, v2Vars, written>>

Engine ==
    \/ BD_Start
    \/ BD_RuleLine
    \/ BD_FallbackFill
    \/ BD_DirectMatch
    \/ BD_RoundRobin
    \/ BD_RandomFill

InV2 ==
    \/ call = "build_mechvibes_v2_inputs" /\ pc = "start"
    \/ call = "generate_config" /\ pc = "v2"

\* where build_mechvibes_v2_inputs hands over when it returns
V2Returned == IF call = "generate_config" THEN "v2_built" ELSE "done"

\* build_mechvibes_v2_inputs up to the loop over the rule: converters.py 193-218
V2_Start ==
    /\ InV2
    /\ IF NoEntries(entries)
       THEN /\ pc' = "error"
            /\ error' = "EmptyInput"
       ELSE /\ pc' = "v2_rule"
            /\ UNCHANGED error
    /\ v2' = V2Locals
    /\ UNCHANGED <<callVars, order, line, buckets, used_indices,
                   fallback_entry, pool, after_rule, v2_inputs, written>>

\* one rule line of build_mechvibes_v2_inputs: converters.py 221-274
V2_RuleLine ==
    /\ pc = "v2_rule"
    /\ v2.line < Len(RuleMapOf(rule))
    /\ v2' = V2RuleLine(v2, entries, RuleMapOf(rule)[v2.line + 1])
    /\ UNCHANGED <<callVars, engineVars, v2_inputs, written>>

\* the rest of build_mechvibes_v2_inputs: converters.py 276-349
V2_Finish ==
    /\ pc = "v2_rule"
    /\ v2.line = Len(RuleMapOf(rule))
    /\ v2_inputs' = V2Finish(v2, entries, split)
    /\ pc' = V2Returned
    /\ UNCHANGED <<callVars, error, order, line, buckets, used_indices,
                   fallback_entry, pool, after_rule, v2, written>>

FileReference ==
    \/ V2_Start
    \/ V2_RuleLine
    \/ V2_Finish

Next == Engine \/ FileReference

Spec == Init /\ [][Next]_vars

(***************************************************************************)
(* generate_config: the canonical builder, the validation, then one        *)
(* document after the other.                                               *)
(***************************************************************************)
InitGen ==
    /\ call = "generate_config"
    /\ entries \in Sourcemaps
    /\ rule \in RuleDocs
    /\ split \in BOOLEAN
    /\ schema \in Schemas
    /\ written = {}
    /\ InitEngine
    /\ InitV2
    /\ InitAux

\* to_definition_keys and the MVDX model, split included: config.py 131-154
GC_Validate ==
    /\ call = "generate_config" /\ pc = "built"
    /\ IF ValidDefinitions(Definitions(buckets))
       THEN pc' = "mvdx" /\ UNCHANGED error
       ELSE pc' = "error" /\ error' = "ValidationError"
    /\ UNCHANGED <<callVars, order, line, buckets, used_indices,
                   fallback_entry, pool, after_rule, v2Vars, written>>

\* the canonical document: config.py 156-175
GC_Mvdx ==
    /\ call = "generate_config" /\ pc = "mvdx"
    /\ written' = IF "mvdx" \in Wanted(schema) THEN written \cup {"config.mvdx.json"}
                  ELSE written
    /\ pc' = "v1"
    /\ UNCHANGED <<callVars, error, order, line, buckets, used_indices,
                   fallback_entry, pool, after_rule, v2Vars>>

\* the single-clip document: config.py 177-182
GC_V1 ==
    /\ call = "generate_config" /\ pc = "v1"
    /\ IF "v1" \notin Wanted(schema)
       THEN pc' = "v2_wanted" /\ UNCHANGED <<error, written>>
       ELSE IF V1Raises(Definitions(buckets))
            THEN pc' = "error" /\ error' = "MalformedTiming" /\ UNCHANGED written
            ELSE /\ pc' = "v2_wanted"
                 /\ written' = written \cup {"config.v1.json"}
                 /\ UNCHANGED error
    /\ UNCHANGED <<callVars, order, line, buckets, used_indices,
                   fallback_entry, pool, after_rule, v2Vars>>

\* the test of config.py 184, and the return of config.py 218 without v2
GC_V2Wanted ==
    /\ call = "generate_config" /\ pc = "v2_wanted"
    /\ pc' = IF "v2" \in Wanted(schema) THEN "v2" ELSE "done"
    /\ UNCHANGED <<callVars, error, order, line, buckets, used_indices,
                   fallback_entry, pool, after_rule, v2Vars, written>>

\* the file-reference document: config.py 190-208, 218
GC_V2 ==
    /\ call = "generate_config" /\ pc = "v2_built"
    /\ written' = written \cup {"config.v2.json"}
    /\ pc' = "done"
    /\ UNCHANGED <<callVars, error, order, line, buckets, used_indices,
                   fallback_entry, pool, after_rule, v2Vars>>

Driver ==
    \/ GC_Validate
    \/ GC_Mvdx
    \/ GC_V1
    \/ GC_V2Wanted
    \/ GC_V2

NextGen == Engine \/ Driver \/ FileReference

SpecGen == InitGen /\ [][NextGen]_vars

(***************************************************************************)
(* Two calls of build_definitions on the same entries and rule, one after  *)
(* the other, each with a random source of its own (rules.py 310).         *)
(***************************************************************************)
\* the pairs the fallback fill gave each key
FallbackFilled(b) ==
    [key \in KeySet |->
        Timing(SelectSeq(b[key], LAMBDA item : item.phase = "fallback"))]

\* what rule application and fallback fill computed in the call that ended:
\* the buckets after the rule (at the raise, when it raised), the consumed
\* entries, the fallback entry and the keys filled from it; and the binding
\* the call returned
Snapshot ==
    [ended |-> pc,
     rule_buckets |-> IF pc = "error" THEN Definitions(buckets)
                      ELSE Definitions(after_rule),
     used |-> used_indices,
     fallback |-> fallback_entry,
     filled |-> FallbackFilled(buckets),
     binding |-> Definitions(buckets)]

InitRuns ==
    /\ call = "build_definitions"
    /\ entries \in Sourcemaps
    /\ rule \in RuleDocs
    /\ split = FALSE
    /\ schema = ""
    /\ written = {}
    /\ InitEngine
    /\ InitV2
    /\ InitAux

\* the caller repeats the call with the same arguments
Rerun ==
    /\ call = "build_definitions"
    /\ run = 1
    /\ pc \in {"done", "error"}
    /\ prev' = Snapshot
    /\ run' = 2
    /\ pc' = "start"
    /\ error' = ""
    /\ order' = <<>>
    /\ line' = 0
    /\ buckets' = EmptyBuckets
    /\ used_indices' = {}
    /\ fallback_entry' = NoEntry
    /\ pool' = <<>>
    /\ after_rule' = EmptyBuckets
    /\ UNCHANGED <<call, entries, rule, split, schema, rs, fn, v2Vars, written>>

NextRuns == Engine \/ Rerun

SpecRuns == InitRuns /\ [][NextRuns]_vars

(***************************************************************************)
(* resolve_key_selectors called on its own, one selector at a time.        *)
(***************************************************************************)
S_enter == <<"e","n","t","e","r">>
S_TDotStar == <<"T",".","*">>
S_NumpadBrace == <<"N","u","m","p","a","d","{","1","-","0","}">>

SelectorPool == {K_Enter, K_Tab, S_NumpadStar, S_enter, S_TDotStar, S_Tab_UP,
                 STAR_UP, S_NumpadBrace}

\* the selector lists drawn as input
RECURSIVE SelectorLists(_)
SelectorLists(n) ==
    IF n = 0 THEN {<<>>}
    ELSE SelectorLists(n - 1) \cup
         {Append(q, x) : q \in {r \in SelectorLists(n - 1) : Len(r) = n - 1},
                         x \in SelectorPool}

InitResolve ==
    /\ call = "resolve_key_selectors"
    /\ entries = <<>>
    /\ rule = RuleDoc(<<>>, TRUE)
    /\ split = FALSE
    /\ schema = ""
    /\ written = {}
    /\ InitEngine
    /\ InitV2
    /\ run = 1
    /\ prev = NoSnapshot
    /\ fn = FnIdle
    /\ \E sels \in SelectorLists(MaxSelectors) :
          rs = [pc |-> "loop", selectors |-> sels, i |-> 0, resolved |-> <<>>,
                result |-> <<>>]

\* one iteration of the loop over the selectors: rules.py 113-119
RS_Select ==
    /\ rs.pc = "loop"
    /\ rs.i < Len(rs.selectors)
    /\ rs' = [rs EXCEPT !.i = @ + 1,
                        !.resolved = @ \o SelectorKeys(rs.selectors[rs.i + 1], KEYS)]
    /\ UNCHANGED <<call, entries, rule, split, schema, run, prev, fn,
                   engineVars, v2Vars, written>>

\* the return: rules.py 120
RS_Return ==
    /\ rs.pc = "loop"
    /\ rs.i = Len(rs.selectors)
    /\ rs' = [rs EXCEPT !.pc = "done", !.result = DictFromKeys(rs.resolved)]
    /\ UNCHANGED <<call, entries, rule, split, schema, run, prev, fn,
                   engineVars, v2Vars, written>>

NextResolve == RS_Select \/ RS_Return

SpecResolve == InitResolve /\ [][NextResolve]_vars

(***************************************************************************)
(* compile_matcher called on its own: a pattern compiled, the matcher      *)
(* applied to a text.                                                      *)
(***************************************************************************)
PatternPool ==
    {<<"2","{","0","-","3","}",".","w","a","v">>, <<"{","3","-","1","}">>, <<"x","{","0","-","1","}","{","2","-","1","}">>, <<"A","{","0","-","1","}","*">>, <<"{","{","1","-","2","}","-","3","}">>,
     <<"{","0","9","-","1","1","}","?">>, <<"2",".","w","a","v">>, <<"*",".","w","a","v">>, <<"T",".","*">>}

TextPool ==
    {<<"2","0",".","w","a","v">>, <<"2","4",".","w","a","v">>, <<"2","2","0",".","w","a","v">>, <<"2","0",".","w","a","v","x">>, <<"2","0","x","w","a","v">>, <<"2">>, <<"4">>, <<"x","0","2">>,
     <<"x","1","1">>, <<"x","1">>, <<"a","0","Z">>, <<"a","2">>, <<"1","0","b">>, <<"0","9","b">>, <<"{","1","-","3","}">>, <<"2",".","w","a","v">>, <<"T","a","b">>}

\* the state while no builder is under execution
IdleCall ==
    /\ entries = <<>>
    /\ rule = RuleDoc(<<>>, TRUE)
    /\ split = FALSE
    /\ schema = ""
    /\ written = {}
    /\ InitEngine
    /\ InitV2
    /\ run = 1
    /\ prev = NoSnapshot
    /\ rs = RsIdle

InitMatch ==
    /\ call = "compile_matcher"
    /\ IdleCall
    /\ \E pattern \in PatternPool, text \in TextPool :
          fn = [pc |-> "call", pattern |-> pattern, text |-> text, out |-> FALSE]

\* matcher = compile_matcher(pattern); matcher(text)
CM_Call ==
    /\ call = "compile_matcher" /\ fn.pc = "call"
    /\ fn' = [fn EXCEPT !.pc = "done", !.out = Matches(fn.pattern, fn.text)]
    /\ UNCHANGED <<call, entries, rule, split, schema, run, prev, rs,
                   engineVars, v2Vars, written>>

SpecMatch == InitMatch /\ [][CM_Call]_vars

(***************************************************************************)
(* to_mechvibes_v1 called on its own, on the definitions of an MVDX model. *)
(* A key the definitions lack has the empty timing list here.              *)
(***************************************************************************)
\* keyname_to_keycode of mspt.keycodes: one code for each key identifier
KeyCode(key) ==
    CASE key = K_Enter -> 28
      [] key = K_Tab -> 15
      [] key = K_Numpad0 -> 82
      [] key = K_NumpadEnter -> 3612

\* the pairs the definitions of the model are drawn from, in tenths of a
\* millisecond
PairPool ==
    {<<0, 100>>, <<100, 200>>, <<1004, 2004>>, <<5, 20>>, <<25, 50>>,
     <<15, 10>>, <<20, 5>>}

TimingLists ==
    {<<>>} \cup {<<a>> : a \in PairPool} \cup {<<a, b>> : a, b \in PairPool}

\* the definitions drawn as input: Enter and Tab defined or not
DefinitionPool ==
    {[key \in KeySet |-> IF key = K_Enter THEN a ELSE IF key = K_Tab THEN b ELSE <<>>] :
        a, b \in TimingLists}

\* the keys with a down pair: converters.py 100-102
KeysDown(defs) == {key \in KeySet : defs[key] # <<>>}

\* the last key in the universe with a down pair and code c
LastWithCode(defs, c) ==
    CHOOSE key \in KeysDown(defs) :
        /\ KeyCode(key) = c
        /\ \A other \in KeysDown(defs) :
              KeyCode(other) = c => KeyPos(other) <= KeyPos(key)

\* the dict `defines` of to_mechvibes_v1: converters.py 98-114
V1Defines(defs) ==
    [c \in {KeyCode(key) : key \in KeysDown(defs)} |->
        TimingPairToClip(ClipSource(defs[LastWithCode(defs, c)]))]

\* fn before a function returned
NoDefines == <<>>

InitV1 ==
    /\ call = "to_mechvibes_v1"
    /\ IdleCall
    /\ \E defs \in DefinitionPool :
          fn = [pc |-> "call", definitions |-> defs, defines |-> NoDefines]

\* to_mechvibes_v1(mvdx=...): converters.py 92-127
V1_Call ==
    /\ call = "to_mechvibes_v1" /\ fn.pc = "call"
    /\ fn' = IF V1Raises(fn.definitions)
             THEN [fn EXCEPT !.pc = "error"]
             ELSE [fn EXCEPT !.pc = "done", !.defines = V1Defines(fn.definitions)]
    /\ UNCHANGED <<call, entries, rule, split, schema, run, prev, rs,
                   engineVars, v2Vars, written>>

SpecV1 == InitV1 /\ [][V1_Call]_vars

(***************************************************************************)
(* to_mechvibes_v2 called on its own.  The dict `defines` is a function    *)
(* from the define names, as text, to file names.                          *)
(***************************************************************************)
F_fallback == <<"f","a","l","l","b","a","c","k",".","w","a","v">>

\* str(keyname_to_keycode(key)): converters.py 154
DownName(key) == IntToStr(KeyCode(key))

\* f"{keyname_to_keycode(key)}-up": converters.py 157, 161
UpName(key) == IntToStr(KeyCode(key)) \o UP_MARK

\* defines[name] = value
Put(defines, name, value) ==
    [x \in DOMAIN defines \cup {name} |-> IF x = name THEN value ELSE defines[x]]

\* the loop over a mapping, for the first n keys of the universe, writing the
\* file of each key the mapping holds under its name: converters.py 153-157
RECURSIVE EmitMapping(_, _, _, _)
EmitMapping(defines, mapping, up, n) ==
    IF n = 0 THEN defines
    ELSE IF mapping[KEYS[n]] = NoDef
         THEN EmitMapping(defines, mapping, up, n - 1)
         ELSE Put(EmitMapping(defines, mapping, up, n - 1),
                  IF up THEN UpName(KEYS[n]) ELSE DownName(KEYS[n]),
                  mapping[KEYS[n]])

\* a fill step that writes soundup whether the name is defined or not
FillUp_Overwrite(defines, key, soundup) == Put(defines, UpName(key), soundup)

\* one iteration of the fill loop: converters.py 160-163
FillUp(defines, key, soundup) ==
    IF UpName(key) \in DOMAIN defines THEN defines
    ELSE Put(defines, UpName(key), soundup)

\* the fill loop over the keys of all_keys among the first n of the universe:
\* converters.py 159-163
RECURSIVE FillMissingUp(_, _, _, _)
FillMissingUp(defines, all_keys, soundup, n) ==
    IF n = 0 THEN defines
    ELSE IF KEYS[n] \in all_keys
         THEN FillUp(FillMissingUp(defines, all_keys, soundup, n - 1), KEYS[n], soundup)
         ELSE FillMissingUp(defines, all_keys, soundup, n - 1)

\* the dict `defines` of to_mechvibes_v2: converters.py 151-163
V2Defines(keydown, keyup, fill_missing_up, all_keys, soundup) ==
    IF fill_missing_up
    THEN FillMissingUp(
            EmitMapping(EmitMapping(NoDefines, keydown, FALSE, Len(KEYS)),
                        keyup, TRUE, Len(KEYS)),
            all_keys, soundup, Len(KEYS))
    ELSE EmitMapping(EmitMapping(NoDefines, keydown, FALSE, Len(KEYS)),
                     keyup, TRUE, Len(KEYS))

\* the mappings drawn as input: each key without a file, or with this one
Mappings(file) == [KeySet -> {NoDef, file}]

\* all_keys is a set of keys; None is the empty one (converters.py 130-133)
InitToV2 ==
    /\ call = "to_mechvibes_v2"
    /\ IdleCall
    /\ \E keydown \in Mappings(F_1), keyup \in Mappings(F_9),
          fill \in BOOLEAN, all_keys \in SUBSET KeySet :
          fn = [pc |-> "call", keydown_defines |-> keydown,
                keyup_defines |-> keyup, fill_missing_up |-> fill,
                all_keys |-> all_keys, soundup |-> F_fallback,
                defines |-> NoDefines]

\* to_mechvibes_v2(...): converters.py 136-176
ToV2_Call ==
    /\ call = "to_mechvibes_v2" /\ fn.pc = "call"
    /\ fn' = [fn EXCEPT !.pc = "done",
                        !.defines = V2Defines(fn.keydown_defines, fn.keyup_defines,
                                              fn.fill_missing_up, fn.all_keys,
                                              fn.soundup)]
    /\ UNCHANGED <<call, entries, rule, split, schema, run, prev, rs,
                   engineVars, v2Vars, written>>

SpecToV2 == InitToV2 /\ [][ToV2_Call]_vars

(***************************************************************************)
(* split_definitions called on its own.  The times of this section are in  *)
(* halves of the unit of PairPool (twentieths of a millisecond), so that   *)
(* the midpoint of two input times is a whole number of them.              *)
(***************************************************************************)
InHalves(timing) ==
    [i \in 1..Len(timing) |-> <<2 * timing[i][1], 2 * timing[i][2]>>]

\* the timing lists drawn for a key: none, one pair (even sum, odd sum,
\* end before start), two pairs, three pairs
SplitTimings ==
    {InHalves(timing) :
        timing \in {<<>>, <<<<0, 100>>>>, <<<<5, 20>>>>, <<<<20, 5>>>>,
                    <<<<0, 100>>, <<100, 200>>>>,
                    <<<<0, 100>>, <<100, 200>>, <<25, 50>>>>}}

SplitTimingPair_NoBisect(pair) ==
    <<<<pair[1], pair[2]>>, <<pair[2], pair[2]>>>>

\* split_timing_pair: config.py 79-82
SplitTimingPair(pair) ==
    LET start == pair[1]
        end == pair[2]
        mid == (start + end) \div 2
    IN  <<<<start, mid>>, <<mid, end>>>>

\* split_definitions: config.py 85-95
SplitDefinitions(definitions, split_mode) ==
    IF ~split_mode THEN definitions
    ELSE [key \in DOMAIN definitions |->
             IF Len(definitions[key]) = 1
             THEN SplitTimingPair(definitions[key][1])
             ELSE definitions[key]]

InitSplit ==
    /\ call = "split_definitions"
    /\ IdleCall
    /\ \E definitions \in [KeySet -> SplitTimings], split_mode \in BOOLEAN :
          fn = [pc |-> "call", definitions |-> definitions,
                split |-> split_mode, updated |-> NoDefines]

\* split_definitions(definitions, split): config.py 85-95
Split_Call ==
    /\ call = "split_definitions" /\ fn.pc = "call"
    /\ fn' = [fn EXCEPT !.pc = "done",
                        !.updated = SplitDefinitions(fn.definitions, fn.split)]
    /\ UNCHANGED <<call, entries, rule, split, schema, run, prev, rs,
                   engineVars, v2Vars, written>>

SpecSplit == InitSplit /\ [][Split_Call]_vars

(***************************************************************************)
(* build_mechvibes_v2_inputs on sourcemaps whose files carry the up mark   *)
(* already, or no extension, and on rules with an up selector that names   *)
(* no key.                                                                 *)
(***************************************************************************)
F_1up == <<"1","-","u","p",".","w","a","v">>
F_raw == <<"r","a","w">>

\* a sample whose file name ends like a derived up name
E_1up == [name |-> <<"1","-","u","p">>, file |-> F_1up, timing |-> << <<0, 500>> >>]
\* a "files" item without "file": the file is the name (sourcemap.py 45)
E_raw == [name |-> F_raw, file |-> F_raw, timing |-> << <<500, 900>> >>]

DerivePool == {E_1, E_1up, E_raw, E_Tab9}

\* a line whose only selector is an up selector that names no key
L_nokey == [pattern |-> F_raw, selectors |-> <<<<"F","o","o","_","U","P">>>>, single |-> TRUE]

DeriveMaps == DistinctSeqs(LinePool \cup {L_nokey}, MaxLines)

DeriveDocs ==
    {RuleDoc(lines, TRUE) : lines \in DeriveMaps} \cup
    {RuleDoc(lines, FALSE) : lines \in {l \in DeriveMaps : \E i \in 1..Len(l) : IsLegacy(l[i])}}

InitDerive ==
    /\ call = "build_mechvibes_v2_inputs"
    /\ entries \in DistinctSeqs(DerivePool, MaxEntries)
    /\ rule \in DeriveDocs
    /\ split \in BOOLEAN
    /\ schema = ""
    /\ written = {}
    /\ InitEngine
    /\ InitV2
    /\ InitAux

SpecDerive == InitDerive /\ [][FileReference]_vars

(***************************************************************************)
(* read_json: io_utils.py.  A text is a sequence of characters.            *)
(***************************************************************************)
QUOTES == {"\"", "'"}
LINE_ENDS == {"\n", "\r"}
BLANKS == {" ", "\t", "\n", "\r"}
CLOSERS == {"]", "}"}

\* the quote that is open after the character ch of a string literal; "" is
\* in_string = False: io_utils.py 19-29, 71-81
StringQuote(quote, escape, ch) ==
    IF ~escape /\ ch # "\\" /\ ch = quote THEN "" ELSE quote

\* the flag escape after the character ch of a string literal
StringEscape(escape, ch) == ~escape /\ ch = "\\"

\* a line comment that runs to the end of the text
LineEnd_Rest(text, i) == Len(text) + 1

\* where the loop of io_utils.py 41-42 stops when it starts at i
LineEnd(text, i) ==
    LET stops == {j \in i..Len(text) : text[j] \in LINE_ENDS}
    IN  IF stops = {} THEN IF i > Len(text) THEN i ELSE Len(text) + 1
        ELSE CHOOSE j \in stops : \A k \in stops : j <= k

\* the position after a block comment whose body starts at i:
\* io_utils.py 48-50
BlockEnd(text, i) ==
    LET stops == {j \in i..(Len(text) - 1) : text[j] = "*" /\ text[j + 1] = "/"}
        stop == IF stops = {} THEN IF i < Len(text) THEN Len(text) ELSE i
                ELSE CHOOSE j \in stops : \A k \in stops : j <= k
    IN  IF stop < Len(text) THEN stop + 2 ELSE stop

\* the loop of _strip_json5_comments from position i: io_utils.py 16-54
RECURSIVE CommentScan(_, _, _, _, _)
CommentScan(text, i, quote, escape, out) ==
    IF i > Len(text) THEN out
    ELSE IF quote # ""
         THEN CommentScan(text, i + 1, StringQuote(quote, escape, text[i]),
                          StringEscape(escape, text[i]), Append(out, text[i]))
    ELSE IF text[i] \in QUOTES
         THEN CommentScan(text, i + 1, text[i], escape, Append(out, text[i]))
    ELSE IF text[i] = "/" /\ i + 1 <= Len(text) /\ text[i + 1] = "/"
         THEN CommentScan(text, LineEnd(text, i + 2), quote, escape, out)
    ELSE IF text[i] = "/" /\ i + 1 <= Len(text) /\ text[i + 1] = "*"
         THEN CommentScan(text, BlockEnd(text, i + 2), quote, escape, out)
    ELSE CommentScan(text, i + 1, quote, escape, Append(out, text[i]))

\* _strip_json5_comments(text): io_utils.py 7-56
StripJson5Comments(text) == CommentScan(text, 1, "", FALSE, <<>>)

\* the test of io_utils.py 91-94 for the comma at position i
CommaTrails(text, i) ==
    LET rest == {j \in (i + 1)..Len(text) : text[j] \notin BLANKS}
    IN  /\ rest # {}
        /\ text[CHOOSE j \in rest : \A k \in rest : j <= k] \in CLOSERS

\* the loop of _strip_trailing_commas from position i: io_utils.py 68-99
RECURSIVE CommaScan(_, _, _, _, _)
CommaScan(text, i, quote, escape, out) ==
    IF i > Len(text) THEN out
    ELSE IF quote # ""
         THEN CommaScan(text, i + 1, StringQuote(quote, escape, text[i]),
                        StringEscape(escape, text[i]), Append(out, text[i]))
    ELSE IF text[i] \in QUOTES
         THEN CommaScan(text, i + 1, text[i], escape, Append(out, text[i]))
    ELSE IF text[i] = "," /\ CommaTrails(text, i)
         THEN CommaScan(text, i + 1, quote, escape, out)
    ELSE CommaScan(text, i + 1, quote, escape, Append(out, text[i]))

\* _strip_trailing_commas(text): io_utils.py 59-101
StripTrailingCommas(text) == CommaScan(text, 1, "", FALSE, <<>>)

PUNCTUATION == {"{", "}", "[", "]", ":", ","}

\* the position after the string literal that opens at i
RECURSIVE LiteralEnd(_, _, _)
LiteralEnd(text, i, escape) ==
    IF i > Len(text) THEN i
    ELSE IF ~escape /\ text[i] = "\"" THEN i + 1
    ELSE LiteralEnd(text, i + 1, ~escape /\ text[i] = "\\")

\* the position after the number or name that starts at i
WordEnd(text, i) ==
    LET stops == {j \in i..Len(text) :
                     text[j] \in BLANKS \cup PUNCTUATION \cup {"\""}}
    IN  IF stops = {} THEN Len(text) + 1
        ELSE CHOOSE j \in stops : \A k \in stops : j <= k

\* the tokens of a JSON text from position i: blanks between tokens are
\* skipped, a string literal is one token with its quotes
RECURSIVE JsonScan(_, _, _)
JsonScan(text, i, tokens) ==
    IF i > Len(text) THEN tokens
    ELSE IF text[i] \in BLANKS THEN JsonScan(text, i + 1, tokens)
    ELSE IF text[i] \in PUNCTUATION
         THEN JsonScan(text, i + 1, Append(tokens, <<text[i]>>))
    ELSE IF text[i] = "\""
         THEN JsonScan(text, LiteralEnd(text, i + 1, FALSE),
                       Append(tokens, SubSeq(text, i, LiteralEnd(text, i + 1, FALSE) - 1)))
    ELSE JsonScan(text, WordEnd(text, i + 1),
                  Append(tokens, SubSeq(text, i, WordEnd(text, i + 1) - 1)))

\* json.loads(text), as far as the sequence of tokens, which fixes the data
\* it returns: io_utils.py 119
JsonLoads(text) == JsonScan(text, 1, <<>>)

\* the position after the number or name that starts at i, which a comment
\* ends as well
Json5WordEnd(text, i) ==
    LET stops == {j \in i..Len(text) :
                     text[j] \in BLANKS \cup PUNCTUATION \cup {"\"", "/"}}
    IN  IF stops = {} THEN Len(text) + 1
        ELSE CHOOSE j \in stops : \A k \in stops : j <= k

\* the end of the line comment whose body starts at i
Json5LineEnd(text, i) ==
    CHOOSE j \in i..(Len(text) + 1) :
        /\ j = Len(text) + 1 \/ text[j] \in LINE_ENDS
        /\ \A k \in i..(j - 1) : text[k] \notin LINE_ENDS

\* the position after the block comment whose body starts at i
Json5BlockEnd(text, i) ==
    LET closes == {j \in i..(Len(text) - 1) : text[j] = "*" /\ text[j + 1] = "/"}
    IN  IF closes = {} THEN Len(text) + 1
        ELSE 2 + CHOOSE j \in closes : \A k \in closes : j <= k

\* the tokens of a JSON5 text from position i: comments are skipped like
\* blanks
RECURSIVE Json5Scan(_, _, _)
Json5Scan(text, i, tokens) ==
    IF i > Len(text) THEN tokens
    ELSE IF text[i] \in BLANKS THEN Json5Scan(text, i + 1, tokens)
    ELSE IF text[i] = "/" /\ i + 1 <= Len(text) /\ text[i + 1] = "/"
         THEN Json5Scan(text, Json5LineEnd(text, i + 2), tokens)
    ELSE IF text[i] = "/" /\ i + 1 <= Len(text) /\ text[i + 1] = "*"
         THEN Json5Scan(text, Json5BlockEnd(text, i + 2), tokens)
    ELSE IF text[i] \in PUNCTUATION
         THEN Json5Scan(text, i + 1, Append(tokens, <<text[i]>>))
    ELSE IF text[i] = "\""
         THEN Json5Scan(text, LiteralEnd(text, i + 1, FALSE),
                        Append(tokens, SubSeq(text, i, LiteralEnd(text, i + 1, FALSE) - 1)))
    ELSE Json5Scan(text, Json5WordEnd(text, i + 1),
                   Append(tokens, SubSeq(text, i, Json5WordEnd(text, i + 1) - 1)))

\* json5.loads(text), as far as the tokens that fix the data it returns: a
\* comma in front of a closing bracket is no token: io_utils.py 114-116
Json5Loads(text) ==
    LET tokens == Json5Scan(text, 1, <<>>)
        kept == {n \in 1..Len(tokens) :
                    ~(/\ tokens[n] = <<",">>
                      /\ n < Len(tokens)
                      /\ tokens[n + 1] \in {<<"]">>, <<"}">>})}
    IN  [m \in 1..Cardinality(kept) |->
            tokens[CHOOSE n \in kept : Cardinality({k \in kept : k <= n}) = m]]

\* read_json on the text raw: io_utils.py 108-119
ReadJson(raw, json5) ==
    IF json5 THEN Json5Loads(raw)
    ELSE JsonLoads(StripTrailingCommas(StripJson5Comments(raw)))

\* string literals of a rule file: plain, holding "//", holding a block
\* comment, holding a comma in front of a bracket, holding an escaped quote
\* in front of "//", holding an apostrophe
LiteralPool ==
    {<<"\"", "a", "\"">>, <<"\"", "/", "/", "x", "\"">>, <<"\"", "/", "*", "x", "*", "/", "\"">>, <<"\"", ",", "]", "\"">>, <<"\"", "\\", "\"", "/", "/", "\"">>, <<"\"", "'", "\"">>}

\* values of the list: a number, and literals the strippers must keep
ValuePool == {<<"1">>, <<"\"", "a", ",", " ", "}", "\"">>, <<"\"", "/", "/", " ", "/", "*", "\"">>}

\* what a rule file carries between its tokens: nothing, a line comment, a
\* block comment, a block comment holding a comma and a bracket, a line
\* comment holding a quote, a block comment holding an apostrophe
CommentPool ==
    {<<>>, <<"/", "/", "c", "\n">>, <<"/", "*", "c", "*", "/">>, <<"/", "*", " ", ",", "]", " ", "*", "/">>, <<"/", "/", " ", "\"", "q", "\r", "\n">>, <<"/", "*", "'", "*", "/">>}

\* a trailing comma: none, bare, followed by blanks
TrailPool == {<<>>, <<",">>, <<",", " ", "\n", "\t">>}

\* the rule file {"k": [v, 2]} with comments c1 after the opening brace and
\* c2 in front of the closing bracket, and trailing commas t1 in the list
\* and t2 in the object
RuleFile(k, v, c1, c2, t1, t2) ==
    <<"{">> \o c1 \o k \o <<":", " ", "[">> \o v \o <<",", " ", "2">> \o t1 \o c2 \o <<"]">> \o t2 \o <<"}">>

InitJson ==
    /\ call = "read_json"
    /\ IdleCall
    /\ \E k \in LiteralPool, v \in ValuePool, c1, c2 \in CommentPool,
          t1, t2 \in TrailPool, json5 \in BOOLEAN :
          fn = [pc |-> "call", key |-> k, value |-> v,
                raw |-> RuleFile(k, v, c1, c2, t1, t2),
                bare |-> RuleFile(k, v, <<>>, <<>>, <<>>, <<>>),
                decorated |-> (c1 # <<>> \/ c2 # <<>>) /\ (t1 # <<>> \/ t2 # <<>>),
                json5 |-> json5, cleaned |-> <<>>, data |-> <<>>, bare_data |-> <<>>]

\* read_json(path) on the rule file and on the same file without comments
\* and trailing commas: io_utils.py 108-119
RJ_Call ==
    /\ call = "read_json" /\ fn.pc = "call"
    /\ fn' = [fn EXCEPT !.pc = "done",
                        !.cleaned = StripTrailingCommas(StripJson5Comments(fn.raw)),
                        !.data = ReadJson(fn.raw, fn.json5),
                        !.bare_data = ReadJson(fn.bare, fn.json5)]
    /\ UNCHANGED <<call, entries, rule, split, schema, run, prev, rs,
                   engineVars, v2Vars, written>>

SpecJson == InitJson /\ [][RJ_Call]_vars

(***************************************************************************)
(* build_definitions on rules that may declare "*" on the file of an entry *)
(* without timing.                                                         *)
(***************************************************************************)
\* the line "0.wav": "*"
L_0star == [pattern |-> F_0, selectors |-> <<STAR>>, single |-> TRUE]

FallbackMaps == DistinctSeqs(LinePool \cup {L_0star}, MaxLines)

FallbackDocs ==
    {RuleDoc(lines, TRUE) : lines \in FallbackMaps} \cup
    {RuleDoc(lines, FALSE) : lines \in {l \in FallbackMaps : \E i \in 1..Len(l) : IsLegacy(l[i])}}

InitFallback ==
    /\ call = "build_definitions"
    /\ entries \in Sourcemaps
    /\ rule \in FallbackDocs
    /\ split = FALSE
    /\ schema = ""
    /\ written = {}
    /\ InitEngine
    /\ InitV2
    /\ InitAux

SpecFallback == InitFallback /\ [][Engine]_vars

(***************************************************************************)
(* build_definitions on sourcemaps of up to three entries not named like a *)
(* key, with rules that may bind three of the four keys to one entry: the  *)
(* pool of round-robin distribution may be longer than the list of the     *)
(* keys still unbound.                                                     *)
(***************************************************************************)
\* "2.wav": ["Numpad*", "Tab"]
L_2keys == [pattern |-> F_2, selectors |-> <<S_NumpadStar, K_Tab>>, single |-> FALSE]

RoundRobinPool == {E_1, E_2, E_0}

RoundRobinMaps == DistinctSeqs({L_2keys, L_0star}, MaxLines)

InitRoundRobin ==
    /\ call = "build_definitions"
    /\ entries \in DistinctSeqs(RoundRobinPool, Cardinality(RoundRobinPool))
    /\ rule \in {RuleDoc(lines, TRUE) : lines \in RoundRobinMaps}
    /\ split = FALSE
    /\ schema = ""
    /\ written = {}
    /\ InitEngine
    /\ InitV2
    /\ InitAux

SpecRoundRobin == InitRoundRobin /\ [][Engine]_vars

(***************************************************************************)
(* _with_suffix called on its own, on a name and then on what it returned. *)
(* The names are a stem followed by an extension; the extensions are those *)
(* of paths.py AUDIO_EXTENSIONS, one in upper case, and none.              *)
(***************************************************************************)
StemPool ==
    {<<"1">>, <<"1","-","u","p">>, <<"{","1","-","2","}">>, <<"a",".","b">>,
     <<"r","a","w">>, <<"u","p">>, <<"^","1","\\">>, <<>>}

ExtensionPool ==
    {EXT_WAV, EXT_OGG, <<".","m","p","3">>, <<".","f","l","a","c">>,
     <<".","W","A","V">>, <<>>}

NamePool == {stem \o ext : stem \in StemPool, ext \in ExtensionPool}

InitSuffix ==
    /\ call = "_with_suffix"
    /\ IdleCall
    /\ \E name \in NamePool :
          fn = [pc |-> "call", name |-> name, once |-> <<>>, twice |-> <<>>]

\* _with_suffix(name, "-up")
WS_Derive ==
    /\ call = "_with_suffix" /\ fn.pc = "call"
    /\ fn' = [fn EXCEPT !.pc = "derived", !.once = WithSuffix(fn.name, UP_MARK)]
    /\ UNCHANGED <<call, entries, rule, split, schema, run, prev, rs,
                   engineVars, v2Vars, written>>

\* _with_suffix on the name the first call returned
WS_Again ==
    /\ call = "_with_suffix" /\ fn.pc = "derived"
    /\ fn' = [fn EXCEPT !.pc = "done", !.twice = WithSuffix(fn.once, UP_MARK)]
    /\ UNCHANGED <<call, entries, rule, split, schema, run, prev, rs,
                   engineVars, v2Vars, written>>

NextSuffix == WS_Derive \/ WS_Again

SpecSuffix == InitSuffix /\ [][NextSuffix]_vars

(***************************************************************************)
(* build_mechvibes_v2_inputs on rules that may declare the up fallback on  *)
(* the line that declares the down fallback, or on the file that is the    *)
(* default of the down fallback.                                           *)
(***************************************************************************)
\* "1.wav": ["*", "*_UP"]
L_both == [pattern |-> F_1, selectors |-> <<STAR, STAR_UP>>, single |-> FALSE]

SoundUpMaps == DistinctSeqs({L_both, L_up, L_star, L_legacy}, MaxLines)

SoundUpDocs ==
    {RuleDoc(lines, TRUE) : lines \in SoundUpMaps} \cup
    {RuleDoc(lines, FALSE) : lines \in {l \in SoundUpMaps : \E i \in 1..Len(l) : IsLegacy(l[i])}}

InitSoundUp ==
    /\ call = "build_mechvibes_v2_inputs"
    /\ entries \in DistinctSeqs({E_1, E_2, E_Tab9}, MaxEntries)
    /\ rule \in SoundUpDocs
    /\ split \in BOOLEAN
    /\ schema = ""
    /\ written = {}
    /\ InitEngine
    /\ InitV2
    /\ InitAux

SpecSoundUp == InitSoundUp /\ [][FileReference]_vars

(***************************************************************************)
(* build_mechvibes_v2_inputs on sourcemaps that may hold a "files" item    *)
(* with neither "file" nor "name": its file is the empty string            *)
(* (sourcemap.py 45-46).  The empty string as a definition and a missing   *)
(* definition are both NoDef.                                              *)
(***************************************************************************)
E_nofile == [name |-> <<>>, file |-> <<>>, timing |-> << <<0, 500>> >>]

InitNoFile ==
    /\ call = "build_mechvibes_v2_inputs"
    /\ entries \in DistinctSeqs({E_1, E_tab, E_nofile}, MaxEntries)
    /\ rule \in RuleDocs
    /\ split \in BOOLEAN
    /\ schema = ""
    /\ written = {}
    /\ InitEngine
    /\ InitV2
    /\ InitAux

SpecNoFile == InitNoFile /\ [][FileReference]_vars

(***************************************************************************)
(* Pack time: pack.py _is_derived_variant, _split_pairs and                *)
(* _materialize_v2_assets.  The config is the set of its "sound",          *)
(* "soundup" and define values; on_disk is the set of the names for which  *)
(* a file exists in the target directory.  An asset is the name of a file  *)
(* together with the timing pairs it is cut from; the cutting (rounding to *)
(* whole milliseconds, encoding) is left out.  The timings of the entries  *)
(* drawn have even sums, so the midpoint of a pair is a whole number.      *)
(***************************************************************************)
F_2down == <<"2","-","d","o","w","n",".","w","a","v">>
P_12up == <<"{","1","-","2","}","-","u","p",".","w","a","v">>

\* a source file whose stem ends in "-up", with a timing of its own
E_up == [name |-> <<"1","-","u","p">>, file |-> F_1up, timing |-> << <<2000, 2400>> >>]
\* a source file whose stem ends in "-down"
E_down == [name |-> <<"2","-","d","o","w","n">>, file |-> F_2down,
           timing |-> << <<3000, 3600>> >>]

PackPool == {E_1, E_2, E_up, E_down}

PackPatterns == {F_1, F_1up, F_2down, P_12, P_12up, F_9}

\* Path(filename).suffix, for a name without "/"
PathSuffix(filename) ==
    IF LastDot(filename) <= 1 \/ LastDot(filename) = Len(filename) THEN <<>>
    ELSE SubSeq(filename, LastDot(filename), Len(filename))

\* Path(filename).stem
PathStem(filename) ==
    SubSeq(filename, 1, Len(filename) - Len(PathSuffix(filename)))

NoVariant == [base |-> <<>>, variant |-> <<>>]

\* _is_derived_variant(filename), NoVariant for None
IsDerivedVariant(filename) ==
    IF EndsWith(PathStem(filename), <<"-","u","p">>)
    THEN [base |-> SubSeq(PathStem(filename), 1, Len(PathStem(filename)) - 3)
                      \o PathSuffix(filename),
          variant |-> <<"u","p">>]
    ELSE IF EndsWith(PathStem(filename), <<"-","d","o","w","n">>)
         THEN [base |-> SubSeq(PathStem(filename), 1, Len(PathStem(filename)) - 5)
                           \o PathSuffix(filename),
               variant |-> <<"d","o","w","n">>]
         ELSE NoVariant

\* _split_pairs(pairs, variant=variant)
SplitPairs(pairs, variant) ==
    [i \in 1..Len(pairs) |->
        IF variant = <<"u","p">>
        THEN <<(pairs[i][1] + pairs[i][2]) \div 2, pairs[i][2]>>
        ELSE <<pairs[i][1], (pairs[i][1] + pairs[i][2]) \div 2>>]

\* available_files: the keys of file_to_timings (pack.py 69-75)
AvailableFiles(es) == {es[i].file : i \in {n \in 1..Len(es) : es[n].file # <<>>}}

\* file_to_timings.get(filename), the empty list for None: the files of the
\* sourcemaps drawn are distinct
FileTimings(es, filename) ==
    IF filename \in AvailableFiles(es)
    THEN es[CHOOSE i \in 1..Len(es) : es[i].file = filename].timing
    ELSE <<>>

\* a pattern resolved through the files it matches: needed_files gains the
\* names `made` of the matches, or nothing when a file of the name exists in
\* the target directory, or the function raises (pack.py 101-111, 119-127)
ThroughMatches(matches, made, pattern, on_disk) ==
    IF matches = {}
    THEN [needed |-> {}, raised |-> pattern \notin on_disk]
    ELSE [needed |-> made, raised |-> FALSE]

\* a derived name whose base is no file of the sourcemap, resolved through
\* the files its base matches: pack.py 100-112
ResolveThroughBase(es, pattern, on_disk) ==
    ThroughMatches(
        {name \in AvailableFiles(es) : Matches(IsDerivedVariant(pattern).base, name)},
        {PathStem(name) \o <<"-">> \o IsDerivedVariant(pattern).variant
             \o PathSuffix(name) :
           name \in {n \in AvailableFiles(es) :
                       Matches(IsDerivedVariant(pattern).base, n)}},
        pattern, on_disk)

\* one iteration of the loop over required_patterns: pack.py 93-127
Resolve(es, pattern, on_disk) ==
    IF IsDerivedVariant(pattern) # NoVariant
    THEN IF IsDerivedVariant(pattern).base \in AvailableFiles(es)
         THEN [needed |-> {pattern}, raised |-> FALSE]
         ELSE ResolveThroughBase(es, pattern, on_disk)
    ELSE IF pattern \in AvailableFiles(es)
         THEN [needed |-> {pattern}, raised |-> FALSE]
         ELSE ThroughMatches({name \in AvailableFiles(es) : Matches(pattern, name)},
                             {name \in AvailableFiles(es) : Matches(pattern, name)},
                             pattern, on_disk)

\* the timings a needed file is cut from, the empty list when the loop skips
\* it: pack.py 135-144
AssetTimings(es, filename) ==
    IF FileTimings(es, filename) # <<>> THEN FileTimings(es, filename)
    ELSE IF IsDerivedVariant(filename) = NoVariant THEN <<>>
         ELSE IF FileTimings(es, IsDerivedVariant(filename).base) = <<>> THEN <<>>
              ELSE SplitPairs(FileTimings(es, IsDerivedVariant(filename).base),
                              IsDerivedVariant(filename).variant)

\* the assets returned: pack.py 129-158
Assets(es, needed_files) ==
    {[file |-> filename, timings |-> AssetTimings(es, filename)] :
        filename \in {f \in needed_files : AssetTimings(es, f) # <<>>}}

InitPack ==
    /\ call = "_materialize_v2_assets"
    /\ entries \in DistinctSeqs(PackPool, MaxEntries)
    /\ rule = RuleDoc(<<>>, TRUE)
    /\ split = FALSE
    /\ schema = ""
    /\ written = {}
    /\ InitEngine
    /\ InitV2
    /\ run = 1
    /\ prev = NoSnapshot
    /\ rs = RsIdle
    /\ \E config \in {c \in SUBSET PackPatterns : Cardinality(c) \in 1..2},
          on_disk \in SUBSET {F_1up, F_9} :
          fn = [pc |-> "call", config |-> config, on_disk |-> on_disk,
                unresolved |-> {}, needed_files |-> {}, out |-> {}, error |-> ""]

\* _materialize_v2_assets up to the end of the loop over the patterns:
\* pack.py 69-127.  The loop raises at the first pattern, in sorted order,
\* that resolves to nothing; unresolved holds every such pattern.
MV_Resolve ==
    /\ call = "_materialize_v2_assets" /\ fn.pc = "call"
    /\ fn' = IF AvailableFiles(entries) = {}
             THEN [fn EXCEPT !.pc = "error", !.error = "NoFiles"]
             ELSE IF \E pattern \in fn.config : Resolve(entries, pattern, fn.on_disk).raised
                  THEN [fn EXCEPT !.pc = "error", !.error = "FileNotFound",
                                  !.unresolved =
                                      {pattern \in fn.config :
                                          Resolve(entries, pattern, fn.on_disk).raised}]
                  ELSE [fn EXCEPT !.pc = "slice",
                                  !.needed_files =
                                      UNION {Resolve(entries, pattern, fn.on_disk).needed :
                                                pattern \in fn.config}]
    /\ UNCHANGED <<call, entries, rule, split, schema, run, prev, rs,
                   engineVars, v2Vars, written>>

\* the loop over needed_files and the return: pack.py 129-158
MV_Slice ==
    /\ call = "_materialize_v2_assets" /\ fn.pc = "slice"
    /\ fn' = [fn EXCEPT !.pc = "done", !.out = Assets(entries, fn.needed_files)]
    /\ UNCHANGED <<call, entries, rule, split, schema, run, prev, rs,
                   engineVars, v2Vars, written>>

NextPack == MV_Resolve \/ MV_Slice

SpecPack == InitPack /\ [][NextPack]_vars

(***************************************************************************)
(* Properties.                                                             *)
(***************************************************************************)
\* build_definitions returned its binding
BindingReturned == call = "build_definitions" /\ pc = "done"

\* the entries named like a key, case-insensitively
KeyNamed(es) == {i \in 1..Len(es) : Lower(es[i].name) \in ReservedNames(KEYS)}

\* C1: whenever build_definitions returns on at least one sound entry, every
\* key of the universe has 1 or 2 timing pairs in the returned binding.
C1_Completeness ==
    (BindingReturned /\ entries # <<>>) =>
        \A key \in KeySet : Len(Definitions(buckets)[key]) \in 1..2

\* C2: during rule application, and in the buckets the rule leaves, no key
\* holds more than 2 timing pairs.
C2_Capacity ==
    (call = "build_definitions" /\ pc \in {"rule", "assign"}) =>
        \A key \in KeySet : Len(buckets[key]) <= 2 /\ Len(after_rule[key]) <= 2

\* C3 as stated: in the returned binding, a pair of an entry named like a key
\* stands under another key only when a rule line put it there (by binding it
\* or by declaring it the fallback).
C3_ReservedAlways ==
    BindingReturned =>
        \A key \in KeySet : \A i \in 1..Len(buckets[key]) :
            (/\ buckets[key][i].entry \in KeyNamed(entries)
             /\ Lower(entries[buckets[key][i].entry].name) # Lower(key))
            => buckets[key][i].phase \in {"rule", "fallback"}

\* C3, amended: in the returned binding, a pair of an entry named like a key
\* stands under another key only when a rule line put it there, or when
\* random fill put it there and no entry has a name that is not empty and not
\* a key identifier; round-robin distribution never puts it there.
C3_Reservation ==
    BindingReturned =>
        \A key \in KeySet : \A i \in 1..Len(buckets[key]) :
            (/\ buckets[key][i].entry \in KeyNamed(entries)
             /\ Lower(entries[buckets[key][i].entry].name) # Lower(key))
            => \/ buckets[key][i].phase \in {"rule", "fallback"}
               \/ /\ buckets[key][i].phase = "random"
                  /\ \A n \in 1..Len(entries) :
                        entries[n].name = <<>> \/ n \in KeyNamed(entries)

\* a binding returned after round-robin distribution and random fill both
\* bound entries, with an entry named like a key left to them by the rule
C3_Witness ==
    /\ BindingReturned
    /\ KeyNamed(entries) \ used_indices # {}
    /\ \E key \in KeySet : \E i \in 1..Len(buckets[key]) :
          buckets[key][i].phase = "roundrobin"
    /\ \E key \in KeySet : \E i \in 1..Len(buckets[key]) :
          buckets[key][i].phase = "random"

\* C4: when generate_config has failed, it has written no document.
C4_AllOrNothing ==
    (call = "generate_config" /\ pc = "error") => written = {}

\* C5: on an empty entry list each builder goes from its start to the error
\* for empty input only: no rule line is applied, no bucket or definition is
\* filled and nothing is returned.
C5_EmptyInput ==
    entries = <<>> =>
        /\ pc = "start" \/ (pc = "error" /\ error = "EmptyInput")
        /\ line = 0 /\ v2.line = 0
        /\ buckets = EmptyBuckets
        /\ used_indices = {} /\ v2.used_indices = {}
        /\ v2_inputs = NoInputs

\* the file-reference builder failed on an empty entry list although the rule
\* has lines
C5_Witness ==
    /\ entries = <<>>
    /\ call = "build_mechvibes_v2_inputs"
    /\ RuleMapOf(rule) # <<>>
    /\ pc = "error"

AliasLine(ln) == [pattern |-> ln.selectors[1], selectors |-> <<STAR>>, single |-> TRUE]

\* the binding of build_definitions on a rule of the one line ln
AliasBinding(st, es) == Definitions(FallbackFill(st.buckets, es, st.fallback, KEYS))

\* C7: on a rule document holding the legacy field alone, whose file F is
\* the file of an entry, each builder returns what it returns on the rule
\* that declares F as the "*" fallback.
C7_LegacyAlias ==
    (/\ pc = "done"
     /\ rule.top = <<L_legacy>> /\ rule.map = <<>>
     /\ \E i \in 1..Len(entries) : entries[i].file = L_legacy.selectors[1])
    => IF call = "build_definitions"
       THEN Definitions(buckets) =
            AliasBinding(ApplyRuleLine([buckets |-> EmptyBuckets, used |-> {},
                                        fallback |-> NoEntry, raised |-> FALSE],
                                       entries, AliasLine(L_legacy), KEYS),
                         entries)
       ELSE v2_inputs =
            V2Finish(V2RuleLine(V2Locals, entries, AliasLine(L_legacy)),
                     entries, split)

\* C8: after a rule whose line for "9.wav" selects Tab_UP was applied by the
\* canonical builder, the pairs of the entry of that file stand under Tab.
C8_UpSelector ==
    (/\ call = "build_definitions"
     /\ pc \in {"assign", "distribute", "fill", "done"}
     /\ L_up \in Range(RuleMapOf(rule)))
    => \A n \in 1..Len(entries) :
          entries[n] = E_Tab9 =>
              \E i \in 1..Len(after_rule[K_Tab]) :
                  after_rule[K_Tab][i].entry = n

\* C9: every pair in a bucket of the canonical builder is the first timing
\* pair of the entry it was taken from.
C9_FirstPairOnly ==
    call = "build_definitions" =>
        \A key \in KeySet : \A i \in 1..Len(buckets[key]) :
            buckets[key][i].pair = entries[buckets[key][i].entry].timing[1]

\* C10: the list resolve_key_selectors returns has no duplicates, holds the
\* keys of every selector (the selector itself when it is a key identifier,
\* else the keys it matches), and orders them by the first selector that
\* yields them, then by the universe; ["Enter", "Numpad*"] yields Enter and
\* then the numpad keys in universe order.
C10_ResolveOrder ==
    rs.pc = "done" =>
        LET sel(i) == IF rs.selectors[i] \in KeySet THEN {rs.selectors[i]}
                      ELSE {k \in KeySet : Matches(rs.selectors[i], k)}
            first(k) == Least({i \in 1..Len(rs.selectors) : k \in sel(i)})
        IN  /\ Range(rs.result) = UNION {sel(i) : i \in 1..Len(rs.selectors)}
            /\ \A p, q \in 1..Len(rs.result) :
                  p < q =>
                     /\ rs.result[p] # rs.result[q]
                     /\ \/ first(rs.result[p]) < first(rs.result[q])
                        \/ /\ first(rs.result[p]) = first(rs.result[q])
                           /\ KeyPos(rs.result[p]) < KeyPos(rs.result[q])
            /\ rs.selectors = <<K_Enter, S_NumpadStar>> =>
                  rs.result = <<K_Enter, K_Numpad0, K_NumpadEnter>>

\* a key that two selectors yield is returned once, at the place the first
\* selector gave it
C10_Witness ==
    /\ rs.pc = "done"
    /\ rs.selectors = <<S_enter, S_NumpadStar>>
    /\ rs.result = <<K_Enter, K_NumpadEnter, K_Numpad0>>

\* the patterns made of p by writing, for its range m, each number
\* from the smaller to the larger of its two ends
RangeChoices(p, m) ==
    {SubSeq(p, 1, m.from - 1) \o IntToStr(num) \o SubSeq(p, m.to + 1, Len(p)) :
        num \in {n \in 0..(m.lo + m.hi) :
                    /\ n >= m.lo \/ n >= m.hi
                    /\ n <= m.lo \/ n <= m.hi}}

\* the patterns without a range made of the patterns ps by replacing ranges
\* in any order
RECURSIVE FullExpansion(_)
FullExpansion(ps) ==
    IF \A p \in ps : BracePositions(p) = {} THEN ps
    ELSE FullExpansion(
            UNION {IF BracePositions(p) = {} THEN {p}
                   ELSE UNION {RangeChoices(p, BraceMatchAt(p, i, DigitRun(p, i + 1))) :
                               i \in BracePositions(p)} : p \in ps})

\* C11: for a pattern with a numeric brace range the matcher accepts a text
\* exactly when the whole text, case folded, glob-matches some pattern of the
\* full expansion of its ranges (each inclusive, {B-A} as {A-B});
\* "2{0-3}.wav" accepts "20.wav" and rejects "24.wav".
C11_BraceMatcher ==
    (fn.pc = "done" /\ call = "compile_matcher" /\ BracePositions(fn.pattern) # {}) =>
        /\ fn.out = (\E q \in FullExpansion({fn.pattern}) :
                        GlobFrom(Lower(q), 1, Lower(fn.text), 1))
        /\ fn.pattern = <<"2","{","0","-","3","}",".","w","a","v">> => (fn.out = (fn.text = <<"2","0",".","w","a","v">>))
        /\ fn.pattern = <<"{","3","-","1","}">> => (fn.out = (fn.text = <<"2">>))

\* a pattern with two ranges, one written backwards, accepted a text of the
\* cartesian expansion
C11_Witness ==
    /\ fn.pc = "done" /\ call = "compile_matcher"
    /\ fn.pattern = <<"x","{","0","-","1","}","{","2","-","1","}">>
    /\ fn.text = <<"x","1","1">>
    /\ fn.out = TRUE

\* the clip the conversion is to emit for a timing list that is not empty:
\* start and length in whole milliseconds, the length reaching to the end of
\* the up pair when there is one
ExpectedClip(pairs) ==
    <<RoundMs(pairs[1][1]),
      RoundMs((IF Len(pairs) = 1 THEN pairs[1][2] ELSE pairs[2][2]) - pairs[1][1])>>

\* C12 as stated: when to_mechvibes_v1 has ended, it has emitted for every
\* key with pairs its one clip, and no clip for a key without pairs.
C12_ClipPerKey ==
    (call = "to_mechvibes_v1" /\ fn.pc \in {"done", "error"}) =>
        /\ DOMAIN fn.defines = {KeyCode(key) : key \in KeysDown(fn.definitions)}
        /\ \A key \in KeysDown(fn.definitions) :
              fn.defines[KeyCode(key)] = ExpectedClip(fn.definitions[key])

\* C12, amended: when no key's clip has a negative rounded length,
\* to_mechvibes_v1 returns with one clip for every key with pairs and none for
\* a key without; when some key's has, it raises and emits nothing.  The
\* pairs (0,10),(10,20) give the clip [0,20] and the pair (100.4,200.4) gives
\* [100,100].
C12_ClipPerKeyOrRaise ==
    (call = "to_mechvibes_v1" /\ fn.pc \in {"done", "error"}) =>
        IF \E key \in KeysDown(fn.definitions) :
               ExpectedClip(fn.definitions[key])[2] < 0
        THEN fn.pc = "error" /\ fn.defines = NoDefines
        ELSE /\ fn.pc = "done"
             /\ DOMAIN fn.defines = {KeyCode(key) : key \in KeysDown(fn.definitions)}
             /\ \A key \in KeysDown(fn.definitions) :
                   fn.defines[KeyCode(key)] = ExpectedClip(fn.definitions[key])
             /\ fn.definitions[K_Enter] = << <<0, 100>>, <<100, 200>> >>
                   => fn.defines[KeyCode(K_Enter)] = <<0, 20>>
             /\ fn.definitions[K_Tab] = << <<1004, 2004>> >>
                   => fn.defines[KeyCode(K_Tab)] = <<100, 100>>

\* a conversion that returned a merged clip for Enter, a single clip for Tab
\* and no other clip
C12_Witness ==
    /\ call = "to_mechvibes_v1" /\ fn.pc = "done"
    /\ fn.definitions[K_Enter] = << <<0, 100>>, <<100, 200>> >>
    /\ fn.definitions[K_Tab] = << <<1004, 2004>> >>
    /\ DOMAIN fn.defines = {KeyCode(K_Enter), KeyCode(K_Tab)}
    /\ fn.defines[KeyCode(K_Enter)] = <<0, 20>>
    /\ fn.defines[KeyCode(K_Tab)] = <<100, 100>>

\* C13: the defines of to_mechvibes_v2 hold every down mapping under the
\* key's code and every up mapping under the code followed by "-up"; with
\* fill-missing set, soundup under the up name of every key of all_keys that
\* has no up mapping; and nothing else.  With Enter mapped down only, fill set
\* and Enter in all_keys, "28-up" holds soundup.
C13_V2Defines ==
    (call = "to_mechvibes_v2" /\ fn.pc = "done") =>
        /\ \A key \in KeySet :
              fn.keydown_defines[key] # NoDef =>
                 /\ DownName(key) \in DOMAIN fn.defines
                 /\ fn.defines[DownName(key)] = fn.keydown_defines[key]
        /\ \A key \in KeySet :
              fn.keyup_defines[key] # NoDef =>
                 /\ UpName(key) \in DOMAIN fn.defines
                 /\ fn.defines[UpName(key)] = fn.keyup_defines[key]
        /\ fn.fill_missing_up =>
              \A key \in fn.all_keys :
                 fn.keyup_defines[key] = NoDef =>
                    /\ UpName(key) \in DOMAIN fn.defines
                    /\ fn.defines[UpName(key)] = fn.soundup
        /\ DOMAIN fn.defines =
              {DownName(key) : key \in {k \in KeySet : fn.keydown_defines[k] # NoDef}}
              \cup {UpName(key) : key \in {k \in KeySet : fn.keyup_defines[k] # NoDef}}
              \cup (IF fn.fill_missing_up THEN {UpName(key) : key \in fn.all_keys}
                    ELSE {})
        /\ (/\ fn.keydown_defines[K_Enter] = F_1
            /\ fn.keyup_defines[K_Enter] = NoDef
            /\ fn.fill_missing_up
            /\ K_Enter \in fn.all_keys)
           => /\ fn.defines[<<"2","8">>] = F_1
              /\ fn.defines[<<"2","8","-","u","p">>] = F_fallback

\* Enter mapped down only, filled up with soundup, while the up mapping of
\* Tab was kept
C13_Witness ==
    /\ call = "to_mechvibes_v2" /\ fn.pc = "done"
    /\ fn.fill_missing_up
    /\ fn.all_keys = {K_Enter, K_Tab}
    /\ fn.keydown_defines = [key \in KeySet |-> IF key = K_Enter THEN F_1 ELSE NoDef]
    /\ fn.keyup_defines = [key \in KeySet |-> IF key = K_Tab THEN F_9 ELSE NoDef]
    /\ DOMAIN fn.defines = {<<"2","8">>, <<"2","8","-","u","p">>, <<"1","5","-","u","p">>}
    /\ fn.defines[<<"2","8","-","u","p">>] = F_fallback
    /\ fn.defines[<<"1","5","-","u","p">>] = F_9

\* a binding in which every key holds 1 or 2 pairs
CompleteBinding(definitions) ==
    \A key \in KeySet : Len(definitions[key]) \in {1, 2}

\* C14: split_definitions with split set turns the single pair (s, e) of a
\* key into (s, m), (m, e) with m the midpoint (2m = s + e) and leaves a key
\* with two pairs unchanged; with split unset it returns the binding
\* unchanged; after a split every key of a complete binding holds 2 pairs.
C14_SplitBisection ==
    (call = "split_definitions" /\ fn.pc = "done") =>
        /\ ~fn.split => fn.updated = fn.definitions
        /\ fn.split =>
              /\ DOMAIN fn.updated = KeySet
              /\ \A key \in KeySet :
                    LET timing == fn.definitions[key]
                        out == fn.updated[key]
                    IN  /\ Len(timing) = 1 =>
                              /\ Len(out) = 2
                              /\ out[1][1] = timing[1][1]
                              /\ 2 * out[1][2] = timing[1][1] + timing[1][2]
                              /\ out[2][1] = out[1][2]
                              /\ out[2][2] = timing[1][2]
                        /\ Len(timing) = 2 => out = timing
              /\ CompleteBinding(fn.definitions) =>
                    \A key \in KeySet : Len(fn.updated[key]) = 2
              /\ fn.definitions[K_Enter] = <<<<0, 200>>>> =>
                    fn.updated[K_Enter] = <<<<0, 100>>, <<100, 200>>>>

\* a complete binding was split: Enter held one pair with an odd sum in the
\* input unit, Tab held two pairs
C14_Witness ==
    /\ call = "split_definitions" /\ fn.pc = "done" /\ fn.split
    /\ CompleteBinding(fn.definitions)
    /\ fn.definitions[K_Enter] = <<<<10, 40>>>>
    /\ fn.updated[K_Enter] = <<<<10, 25>>, <<25, 40>>>>
    /\ Len(fn.definitions[K_Tab]) = 2
    /\ fn.updated[K_Tab] = fn.definitions[K_Tab]
    /\ \A key \in KeySet : Len(fn.updated[key]) = 2

V2InputsReturned == call = "build_mechvibes_v2_inputs" /\ pc = "done"

\* text with the mark put in front of its last dot; the text itself when it
\* has no dot
BeforeExtension(text, mark) ==
    LET dots == {i \in 1..Len(text) : text[i] = "."}
    IN  IF dots = {} THEN text
        ELSE LET dot == CHOOSE i \in dots : \A j \in dots : j <= i
             IN  [i \in 1..(Len(text) + Len(mark)) |->
                     IF i < dot THEN text[i]
                     ELSE IF i < dot + Len(mark) THEN mark[i - dot + 1]
                     ELSE text[i - Len(mark)]]

HasExtension(text) == \E i \in 1..Len(text) : text[i] = "."

AlreadyUp(text) ==
    \/ EndsWith(text, <<"-","u","p",".","w","a","v">>)
    \/ EndsWith(text, <<"-","u","p",".","o","g","g">>)

MatchedBefore(i) ==
    {idx \in 1..Len(entries) :
        \E j \in 1..(i - 1) :
            /\ ~IsLegacyAlias(RuleMapOf(rule)[j])
            /\ Matches(RuleMapOf(rule)[j].pattern, entries[idx].file)}

\* line i matched an entry that no line before it had matched
FreshMatch(i) ==
    /\ ~IsLegacyAlias(RuleMapOf(rule)[i])
    /\ \E idx \in 1..Len(entries) \ MatchedBefore(i) :
          Matches(RuleMapOf(rule)[i].pattern, entries[idx].file)

\* line i declares a selector that ends in "_UP"
DeclaresUp(i) ==
    \E n \in 1..Len(RuleMapOf(rule)[i].selectors) :
        EndsWith(RuleMapOf(rule)[i].selectors[n], <<"_","U","P">>)

\* the rule lines bound an up definition for a key, or set the up fallback
UpContributed ==
    \/ \E key \in KeySet : v2.keyup_defines[key] # NoDef
    \/ v2.fallback_up # NoDef

MatchedDeclaring(marker) ==
    {i \in 1..Len(RuleMapOf(rule)) :
        /\ FreshMatch(i)
        /\ marker \in Range(RuleMapOf(rule)[i].selectors)}

\* the pattern of the first of the lines, other when there is none
FirstPattern(lines, other) ==
    IF lines = {} THEN other
    ELSE RuleMapOf(rule)[CHOOSE i \in lines : \A j \in lines : i <= j].pattern

\* C17: without split, sound is the pattern of the first rule line that
\* declared "*" and matched an entry, or the file of the first entry when
\* there is no such line; soundup is the pattern of the first matched line
\* that declared "*_UP", or the value of sound.
C17_SoundDefaults ==
    (V2InputsReturned /\ ~split) =>
        /\ v2_inputs.sound = FirstPattern(MatchedDeclaring(STAR), entries[1].file)
        /\ v2_inputs.soundup =
              FirstPattern(MatchedDeclaring(STAR_UP), v2_inputs.sound)

\* the same defaults, for the rules without the legacy field "fallback"
SoundDefaults_NoLegacy ==
    (V2InputsReturned /\ ~split
        /\ \A i \in 1..Len(RuleMapOf(rule)) : ~IsLegacyAlias(RuleMapOf(rule)[i])) =>
        /\ v2_inputs.sound = FirstPattern(MatchedDeclaring(STAR), entries[1].file)
        /\ v2_inputs.soundup =
              FirstPattern(MatchedDeclaring(STAR_UP), v2_inputs.sound)

\* the string literals among the tokens
Literals(tokens) == SelectSeq(tokens, LAMBDA token : Head(token) = "\"")

\* C18: read_json reads a rule file with "//" comments, block comments and
\* trailing commas in front of "}" or "]" to the same data as the file
\* without them, and the stripping keeps every string literal as it was,
\* also one that holds "//", "/*" or a comma in front of a closing bracket.
C18_ReadJson ==
    (call = "read_json" /\ fn.pc = "done") =>
        /\ fn.data = fn.bare_data
        /\ fn.data = JsonLoads(fn.bare)
        /\ Literals(JsonLoads(fn.cleaned)) =
              <<fn.key>> \o (IF Head(fn.value) = "\"" THEN <<fn.value>> ELSE <<>>)
        /\ JsonLoads(fn.cleaned) = JsonLoads(fn.bare)

\* a file with a comment and a trailing comma, whose key holds a comma in
\* front of a bracket and whose value holds "//" and "/*", was read without
\* json5
C18_Witness ==
    /\ call = "read_json" /\ fn.pc = "done"
    /\ ~fn.json5
    /\ fn.decorated
    /\ fn.raw # fn.bare
    /\ fn.cleaned # fn.raw
    /\ fn.key = <<"\"", ",", "]", "\"">>
    /\ fn.value = <<"\"", "/", "/", " ", "/", "*", "\"">>
    /\ fn.data = <<<<"{">>, fn.key, <<":">>, <<"[">>, fn.value, <<",">>, <<"2">>,
                   <<"]">>, <<"}">>>>

\* no pair that one of the phases bound comes from an entry that the rule
\* application consumed
NoReuse(phases) ==
    call = "build_definitions" =>
        \A key \in KeySet :
            \A n \in 1..Len(buckets[key]) :
                buckets[key][n].phase \in phases =>
                    buckets[key][n].entry \notin used_indices

\* C19: no entry consumed during rule application is bound to a key by a
\* later phase of the same run: direct name match, round-robin distribution
\* and random fill draw only from entries that no rule line claimed.
C19_NoReuse == NoReuse({"direct", "roundrobin", "random"})

\* the same for direct name match and round-robin distribution alone
NoReuse_BeforeRandomFill == NoReuse({"direct", "roundrobin"})

\* the entries that the patterns of the lines before line i match
ClaimedBefore(i) ==
    {idx \in 1..Len(entries) :
        \E j \in 1..(i - 1) :
            Matches(RuleMapOf(rule)[j].pattern, entries[idx].file)}

\* the entries line i matched: those its pattern matches that no line before
\* it had matched
ClaimedBy(i) ==
    {idx \in 1..Len(entries) \ ClaimedBefore(i) :
        Matches(RuleMapOf(rule)[i].pattern, entries[idx].file)}

\* the rule lines that declared "*" and matched an entry
StarLines ==
    {i \in 1..Len(RuleMapOf(rule)) :
        STAR \in Range(RuleMapOf(rule)[i].selectors) /\ ClaimedBy(i) # {}}

StarMatched == call = "build_definitions" /\ StarLines # {}

\* the first entry matched by the first line that declared "*"
FallbackSource ==
    LET first == CHOOSE i \in StarLines : \A j \in StarLines : i <= j
    IN  CHOOSE idx \in ClaimedBy(first) : \A other \in ClaimedBy(first) : idx <= other

\* direct name match, reservation, round-robin distribution or random fill
\* ran, or bound a pair
LaterPhaseRan ==
    \/ pc \in {"distribute", "fill"}
    \/ pool # <<>>
    \/ \E key \in KeySet :
          \E n \in 1..Len(buckets[key]) :
              buckets[key][n].phase \in {"direct", "roundrobin", "random"}

\* every key that the rule application left unbound holds one pair, the
\* first pair of the fallback source; the other keys hold what the rule
\* application gave them
FallbackGiven ==
    \A key \in KeySet :
        IF after_rule[key] = <<>>
        THEN /\ Len(buckets[key]) = 1
             /\ entries[FallbackSource].timing # <<>>
             /\ buckets[key][1].pair = entries[FallbackSource].timing[1]
             /\ buckets[key][1].entry = FallbackSource
        ELSE buckets[key] = after_rule[key]

\* the step that follows the rule application is the fallback fill, which
\* returns
FallbackReturns ==
    (StarMatched /\ pc = "assign") => (pc' = "done" /\ fallback_entry' = fallback_entry)

\* C20: when a rule line that declared "*" matched an entry, the later
\* phases (direct name match, reservation, round-robin distribution, random
\* fill) never run; after the rule application the fallback fill can be
\* taken and is the only step taken, and the run returns with every key that
\* was still unbound holding exactly one pair, the first timing pair of the
\* first entry matched by the first such line.
C20_FallbackOnly ==
    /\ [](StarMatched => ~LaterPhaseRan)
    /\ []((StarMatched /\ pc = "assign") => ENABLED BD_FallbackFill)
    /\ [][FallbackReturns]_vars
    /\ []((StarMatched /\ pc = "done") => FallbackGiven)

\* the same for the runs whose fallback source carries a timing pair
FallbackOnly_Timed ==
    /\ [](StarMatched => ~LaterPhaseRan)
    /\ []((StarMatched /\ pc = "assign") => ENABLED BD_FallbackFill)
    /\ [][FallbackReturns]_vars
    /\ []((StarMatched /\ pc = "done" /\ entries[FallbackSource].timing # <<>>)
             => FallbackGiven)

\* the entries consumed by the first n rule lines: each by the first line
\* whose pattern matches its file
ConsumedByLines(n) == UNION {ClaimedBy(j) : j \in 1..n}

\* the consumed set of each builder is what the lines taken so far claimed;
\* a raise of the canonical builder may leave the last line half applied
ConsumedOnce ==
    /\ InEngine =>
          /\ used_indices \subseteq ConsumedByLines(line)
          /\ pc # "error" => used_indices = ConsumedByLines(line)
    /\ v2.used_indices = ConsumedByLines(v2.line)

\* a pair that rule application put under a key comes from an entry claimed
\* by a line taken so far that selects the key
RulePairsOwned ==
    InEngine =>
        \A key \in KeySet :
            \A n \in 1..Len(buckets[key]) :
                buckets[key][n].phase = "rule" =>
                    \E j \in 1..line :
                        /\ buckets[key][n].entry \in ClaimedBy(j)
                        /\ key \in Range(TargetKeys(RuleMapOf(rule)[j], KEYS))

\* a definition the loop over the rule gave a key is the pattern of a line
\* taken so far that claimed an entry and selects the key on that channel
RuleDefinesOwned ==
    \A key \in KeySet :
        /\ v2.keydown_defines[key] # NoDef =>
              \E j \in 1..v2.line :
                  /\ RuleMapOf(rule)[j].pattern = v2.keydown_defines[key]
                  /\ ClaimedBy(j) # {}
                  /\ key \in Range(ResolveKeySelectors(
                                     DownSelectors(RuleMapOf(rule)[j]), KEYS))
        /\ v2.keyup_defines[key] # NoDef =>
              \E j \in 1..v2.line :
                  /\ RuleMapOf(rule)[j].pattern = v2.keyup_defines[key]
                  /\ ClaimedBy(j) # {}
                  /\ key \in Range(ResolveKeySelectors(
                                     UpSelectors(RuleMapOf(rule)[j]), KEYS))

\* no step takes an entry out of a consumed set
ConsumedGrows ==
    /\ used_indices \subseteq used_indices'
    /\ v2.used_indices \subseteq v2.used_indices'

\* C21: over the rule lines in declaration order, each entry is consumed by
\* at most one line, the first whose pattern matches its file, and gives
\* bindings only to the keys of that line; a later line never matches an
\* entry an earlier line consumed, and the consumed set only grows.
C21_SingleConsumer ==
    /\ [](ConsumedOnce /\ RulePairsOwned /\ RuleDefinesOwned)
    /\ [][ConsumedGrows]_vars

\* two lines were applied, each consumed an entry and bound its pairs, and the
\* pattern of the second matches the entry the first consumed as well
C21_Witness ==
    /\ call = "build_definitions" /\ pc = "assign" /\ line = 2
    /\ ClaimedBy(1) # {} /\ ClaimedBy(2) # {}
    /\ \E idx \in ClaimedBy(1) :
          Matches(RuleMapOf(rule)[2].pattern, entries[idx].file)
    /\ \E key \in KeySet : \E n \in 1..Len(buckets[key]) :
          buckets[key][n].phase = "rule" /\ buckets[key][n].entry \in ClaimedBy(2)
    /\ \E key \in KeySet : \E n \in 1..Len(buckets[key]) :
          buckets[key][n].phase = "rule" /\ buckets[key][n].entry \in ClaimedBy(1)

\* the rule lines whose selector list resolves to no key
ZeroKeyLines ==
    {i \in 1..Len(RuleMapOf(rule)) : TargetKeys(RuleMapOf(rule)[i], KEYS) = <<>>}

\* the entries the pattern of line i matches among those not yet consumed
Unconsumed(i) ==
    {idx \in 1..Len(entries) :
        /\ idx \notin used_indices
        /\ Matches(RuleMapOf(rule)[i].pattern, entries[idx].file)}

\* the application of a line that resolves to no key consumes the entries
\* its pattern matches and changes no bucket
ZeroKeyStep ==
    (InEngine /\ pc = "rule" /\ order[line + 1] \in ZeroKeyLines) =>
        /\ used_indices' = used_indices \cup Unconsumed(order[line + 1])
        /\ buckets' = buckets
        /\ error' = error

\* the entries that the lines resolving to no key consumed
ReservedByLines == UNION {ClaimedBy(i) : i \in ZeroKeyLines}

\* no reserved entry is in the list direct name match reads, in the pool of
\* round-robin distribution, or under a key by one of the two
ReservedKeptOut ==
    (InEngine /\ pc \in {"assign", "distribute", "fill", "done"}) =>
        /\ ReservedByLines \cap Range(RemainingEntries(entries, used_indices)) = {}
        /\ ReservedByLines \cap Range(pool) = {}
        /\ \A key \in KeySet :
              \A n \in 1..Len(buckets[key]) :
                  buckets[key][n].phase \in {"direct", "roundrobin"} =>
                      buckets[key][n].entry \notin ReservedByLines

\* C22: a rule line whose selector list resolves to zero keys consumes every
\* not yet consumed entry its pattern matches and leaves every bucket
\* unchanged, and the entries it consumed are absent from the direct-match
\* and round-robin pools of the run.
C22_ZeroKeyReservation ==
    /\ [][ZeroKeyStep]_vars
    /\ []ReservedKeptOut

\* a run returned in which a line without keys consumed the entry named Tab,
\* and direct name match and round-robin distribution bound other entries
C22_Witness ==
    /\ BindingReturned /\ fallback_entry = NoEntry
    /\ \E idx \in ReservedByLines : entries[idx].name = K_Tab
    /\ \E key \in KeySet : \E n \in 1..Len(buckets[key]) :
          buckets[key][n].phase \in {"direct", "roundrobin"}
    /\ \A n \in 1..Len(buckets[K_Tab]) : buckets[K_Tab][n].entry \notin ReservedByLines

\* the items direct name match put under a key
DirectItems(key) == SelectSeq(buckets[key], LAMBDA item : item.phase = "direct")

\* the entries no rule line consumed whose name is the key identifier, case
\* apart
NamedLike(key) ==
    {idx \in 1..Len(entries) :
        idx \notin used_indices /\ Lower(entries[idx].name) = Lower(key)}

\* the entries direct name match bound
DirectBound ==
    {idx \in 1..Len(entries) :
        \E key \in KeySet : \E n \in 1..Len(DirectItems(key)) :
            DirectItems(key)[n].entry = idx}

\* direct name match has run
DirectRan ==
    InEngine /\ fallback_entry = NoEntry /\ pc \in {"distribute", "fill", "done"}

\* C23: with no fallback recorded, direct name match binds a key unbound
\* after rule application to the first not yet consumed entry, in entry
\* order, named like the key case-insensitively; no key receives two entries
\* and no entry goes to two keys by direct match, and the entries bound this
\* way are not in the pool of round-robin distribution.
C23_DirectMatch ==
    DirectRan =>
        /\ \A key \in KeySet :
              IF after_rule[key] = <<>> /\ NamedLike(key) # {}
              THEN DirectItems(key) =
                      Items(entries[Least(NamedLike(key))].timing,
                            Least(NamedLike(key)), "direct")
              ELSE DirectItems(key) = <<>>
        /\ \A k1, k2 \in KeySet :
              \A n1 \in 1..Len(DirectItems(k1)) : \A n2 \in 1..Len(DirectItems(k2)) :
                  DirectItems(k1)[n1].entry = DirectItems(k2)[n2].entry => k1 = k2
        /\ DirectBound \cap Range(pool) = {}

\* the rule consumed the first entry named Tab, direct name match bound the
\* second one, spelled in lower case, to Tab
C23_Witness ==
    /\ DirectRan /\ pc = "done"
    /\ Len(entries) = 2
    /\ entries[1].name = K_Tab /\ 1 \in used_indices
    /\ entries[2].name = <<"t","a","b">>
    /\ DirectItems(K_Tab) = Items(entries[2].timing, 2, "direct")

\* the items round-robin distribution put under a key
RoundRobinItems(key) ==
    SelectSeq(buckets[key], LAMBDA item : item.phase = "roundrobin")

\* the step of round-robin distribution: the pool is shuffled, the i-th of
\* the keys still unbound receives the first pair of the i-th entry of the
\* shuffled pool as long as there is one, and no other bucket changes
RoundRobinStep ==
    (InEngine /\ pc = "distribute" /\ pc' = "fill") =>
        /\ Len(pool') = Len(pool) /\ Range(pool') = Range(pool)
        /\ \A i \in 1..Len(UnassignedKeys(buckets, KEYS)) :
              buckets'[UnassignedKeys(buckets, KEYS)[i]] =
                  IF i <= Len(pool')
                  THEN Items(FirstPair(entries[pool'[i]].timing), pool'[i],
                             "roundrobin")
                  ELSE <<>>
        /\ \A key \in KeySet :
              buckets[key] # <<>> => buckets'[key] = buckets[key]

\* a key holds at most one pair from round-robin distribution, and no entry
\* stands under two keys by it
RoundRobinOneToOne ==
    InEngine =>
        /\ \A key \in KeySet : Len(RoundRobinItems(key)) <= 1
        /\ \A k1, k2 \in KeySet :
              (/\ RoundRobinItems(k1) # <<>>
               /\ RoundRobinItems(k2) # <<>>
               /\ RoundRobinItems(k1)[1].entry = RoundRobinItems(k2)[1].entry)
              => k1 = k2

\* C24: round-robin distribution gives the shuffled pool to the keys still
\* unbound one-to-one in key-universe order: the i-th pool entry goes to the
\* i-th unbound key, a key receives at most one entry and an entry goes to at
\* most one key, and the distribution stops when the pool or the list of
\* unbound keys is exhausted.
C24_RoundRobin ==
    /\ [][RoundRobinStep]_vars
    /\ []RoundRobinOneToOne

\* the rule bound three keys, the pool held two entries in the reverse of
\* their order in the sourcemap, and the only key left received the first
\* of the shuffled pool: the second went to no key
C24_Witness ==
    /\ InEngine /\ pc = "fill"
    /\ Len(pool) = 2 /\ pool[1] > pool[2]
    /\ UnassignedKeys(after_rule, KEYS) = <<K_Enter>>
    /\ RoundRobinItems(K_Enter) =
          Items(FirstPair(entries[pool[1]].timing), pool[1], "roundrobin")
    /\ RoundRobinItems(K_Enter) # <<>>
    /\ \A key \in KeySet : \A n \in 1..Len(buckets[key]) :
          buckets[key][n].entry # pool[2]

\* the name carries the mark in front of its last dot, or at its end when
\* it has no dot
CarriesUp(name) ==
    IF LastDot(name) = 0 THEN EndsWith(name, UP_MARK)
    ELSE EndsWith(SubSeq(name, 1, LastDot(name) - 1), UP_MARK)

\* C25: the up name of a name has "-up" in front of the extension, inserted
\* there unless the name carries it already, and the derivation is
\* idempotent: the up name of an up name is that up name.
C25_UpIdempotent ==
    (call = "_with_suffix" /\ fn.pc = "done") =>
        /\ fn.name # <<>> =>
              fn.once = IF CarriesUp(fn.name) THEN fn.name
                        ELSE InsertAt(fn.name, UP_MARK, LastDot(fn.name))
        /\ fn.twice = fn.once

\* the same for the names that end in ".wav" or ".ogg"
UpIdempotent_WavOgg ==
    (/\ call = "_with_suffix" /\ fn.pc = "done"
     /\ EndsWith(fn.name, EXT_WAV) \/ EndsWith(fn.name, EXT_OGG)) =>
        /\ fn.name # <<>> =>
              fn.once = IF CarriesUp(fn.name) THEN fn.name
                        ELSE InsertAt(fn.name, UP_MARK, LastDot(fn.name))
        /\ fn.twice = fn.once

\* soundup as the claim gives it: the pattern of the first matched line that
\* declared "*_UP", or sound with "-up" in front of its extension
SoundUpPromised ==
    IF MatchedDeclaring(STAR_UP) # {}
    THEN FirstPattern(MatchedDeclaring(STAR_UP), NoDef)
    ELSE InsertAt(v2_inputs.sound, UP_MARK, LastDot(v2_inputs.sound))

\* C26: in split mode soundup is sound with "-up" inserted before the
\* extension, unless a rule line that matched an entry declared "*_UP"; then
\* soundup is the pattern of that line, unchanged, also when the same line
\* declares the down fallback "*".
C26_SoundUp ==
    (V2InputsReturned /\ split) => v2_inputs.soundup = SoundUpPromised

\* the same for the runs whose up fallback, when a rule line declared one, is
\* another name than sound
SoundUp_Distinct ==
    (/\ V2InputsReturned /\ split
     /\ MatchedDeclaring(STAR_UP) # {} =>
           FirstPattern(MatchedDeclaring(STAR_UP), NoDef) # v2_inputs.sound)
    => v2_inputs.soundup = SoundUpPromised

\* a step of a phase after the rule application
LaterPhaseStep == InEngine /\ pc \in {"assign", "distribute", "fill"}

\* a step of a later phase leaves the bucket of a key that holds a pair as it
\* is
BoundKeysKept ==
    LaterPhaseStep =>
        \A key \in KeySet : buckets[key] # <<>> => buckets'[key] = buckets[key]

\* C27: once a key holds a pair at the end of a phase of build_definitions,
\* no later phase adds to or changes its pairs: fallback fill, direct name
\* match, round-robin distribution and random fill write only to keys whose
\* bucket is empty when they write.
C27_BoundKeysKept == [][BoundKeysKept]_vars

\* a binding returned in which Tab holds what the rule gave it, and
\* round-robin distribution and random fill bound other keys
C27_Witness ==
    /\ BindingReturned
    /\ after_rule[K_Tab] # <<>> /\ buckets[K_Tab] = after_rule[K_Tab]
    /\ \E key \in KeySet : RoundRobinItems(key) # <<>>
    /\ \E key \in KeySet : \E n \in 1..Len(buckets[key]) :
          buckets[key][n].phase = "random"

\* every key has a down definition that is not empty, and with split an up
\* definition
AllKeysDefined ==
    \A key \in KeySet :
        /\ v2_inputs.keydown_defines[key] # NoDef
        /\ split => v2_inputs.keyup_defines[key] # NoDef

\* C28: on every input with at least one sound entry,
\* build_mechvibes_v2_inputs returns a non-empty down definition for every
\* key of the universe, and with split an up definition for every key too.
C28_AllKeysDefined ==
    (V2InputsReturned /\ entries # <<>>) => AllKeysDefined

\* the same for the sourcemaps whose entries all have a file name
AllKeysDefined_Named ==
    (/\ V2InputsReturned /\ entries # <<>>
     /\ \A i \in 1..Len(entries) : entries[i].file # <<>>)
    => AllKeysDefined

\* generate_config ran both builders on its entries and rule, and a rule
\* line that declared "*" matched an entry
BothBuiltWithStar ==
    /\ call = "generate_config" /\ pc \in {"v2_built", "done"}
    /\ v2_inputs # NoInputs
    /\ StarLines # {}

\* every key that the rule lines bound in neither builder holds the first
\* pair of the fallback entry in the canonical binding and the pattern of
\* the line that declared the fallback in the file-reference down mapping
SameFallback ==
    \A key \in KeySet :
        (after_rule[key] = <<>> /\ v2.keydown_defines[key] = NoDef) =>
            /\ buckets[key] =
                  Items(FirstPair(entries[FallbackSource].timing),
                        FallbackSource, "fallback")
            /\ v2_inputs.keydown_defines[key] = FirstPattern(StarLines, NoDef)

\* C29: for the same entries and rule, when a rule line that declared "*"
\* matched, every key no rule line bound is filled from the down fallback in
\* both builders: the fallback entry's timing in the canonical binding, the
\* fallback pattern in the file-reference down mapping, never a
\* direct-name-matched file in one and the fallback in the other.
C29_SameFallback == BothBuiltWithStar => SameFallback

\* the same for the sourcemaps without an entry named like a key and the
\* rules without the legacy field "fallback"
SameFallback_NoNames ==
    (/\ BothBuiltWithStar
     /\ KeyNamed(entries) = {}
     /\ \A i \in 1..Len(RuleMapOf(rule)) : ~IsLegacyAlias(RuleMapOf(rule)[i]))
    => SameFallback

\* the value is resolved without error and cut from the timing of the
\* sourcemap entry of that file name
OwnTiming(value) ==
    /\ value \notin fn.unresolved
    /\ fn.pc = "done" =>
          [file |-> value, timings |-> FileTimings(entries, value)] \in fn.out

\* C30: at pack time every define, sound or soundup value that is the file
\* name of a sourcemap entry is resolved without error and materialized from
\* that entry's own timing, whatever the spelling of the name, also for a
\* source file whose stem ends in "-up" or "-down" and has no base file in
\* the sourcemap.
C30_OwnTiming ==
    (call = "_materialize_v2_assets" /\ fn.pc \in {"done", "error"}) =>
        \A value \in fn.config \cap AvailableFiles(entries) : OwnTiming(value)

\* the same for the names that are no derived name, or whose base is a file
\* of the sourcemap
OwnTiming_Plain ==
    (call = "_materialize_v2_assets" /\ fn.pc \in {"done", "error"}) =>
        \A value \in fn.config \cap AvailableFiles(entries) :
            (\/ IsDerivedVariant(value) = NoVariant
             \/ IsDerivedVariant(value).base \in AvailableFiles(entries))
            => OwnTiming(value)

=============================================================================
